---- MODULE Spec2Model ----
(***************************************************************************)
(* Solution 360: the one-time-password store (src/lib/otp.ts) and the      *)
(* session / authentication manager (contexts/AuthContext).                *)
(*                                                                         *)
(* Several machines are modelled, each with its own next-state relation,   *)
(* so that they are explored separately: the OTP store on the server       *)
(* (clock srvNow, in minutes) with the routes send-otp and verify-otp; the *)
(* authentication manager in the browser (clock now, in days) with         *)
(* signIn, verifyMagicLink, sendMagicLink, signOut and the auth-state      *)
(* listener; signIn in two browsers for one account; generateOTP; the      *)
(* company service (createCompany, updateCompany) with its IP allow-list;  *)
(* the Cloud Functions sendOtpEmail (with its mailer) and verifyOtp.       *)
(***************************************************************************)
EXTENDS Integers, Sequences, FiniteSets, TLC

(***************************************************************************)
(* Bounds of the exploration.                                              *)
(***************************************************************************)
MaxDocs == 2
MaxSrvTime == 6
MaxAttempts == 1
MaxSeqAttempts == 2
MaxTime == 8
MaxLinkCalls == 2
RandomGrain == 90

(***************************************************************************)
(* Program constants.                                                      *)
(***************************************************************************)
OTP_EXPIRY_MINUTES == 5
SEVEN_DAYS == 7
MAX_RETRIES == 3
RETRY_DELAY_MS == 2000
MAX_ALLOWED_IPS == 3

Emails == {"a@b.com", "c@d.com"}
Codes == {"123456", "654321"}
Callers == {"r1", "r2"}
DocIds == 1..MaxDocs
Pairs == Emails \X Codes

VARIABLES
    otps,        \* the 'otps' collection: a set of documents
    issued,      \* history: every document storeOTP has written
    srvNow,      \* server clock, in minutes
    vcall,       \* per caller: the verifyOTP call in progress
    vlast,       \* the verifyOTP call that returned in the last step
    lastStored,  \* history: the storeOTP call made in the last step
    validCount   \* history: per document, the number of calls it made return true

VARIABLES
    users,       \* the 'users' collection: uid -> profile document
    companies,   \* the 'companies' collection, in snapshot order
    provider,    \* identity provider: auth.currentUser and its metadata
    authState,   \* AuthProvider's React state {user, isLoading, error}
    loads,       \* loadUserData invocations of the auth-state listener in flight
    call,        \* the signIn / verifyMagicLink call in progress or last finished
    now,         \* browser clock, in days
    budget,      \* number of calls that may still be started
    faulty       \* whether network calls may fail in this behaviour

VARIABLES
    resp,        \* the response of the last request to an API route
    sreq,        \* the send-otp request in progress
    outbox,      \* the messages the mail transport has accepted
    fnOtps,      \* Cloud Functions: the 'otps' collection, keyed by email
    fn,          \* Cloud Functions: the sendOtpEmail invocation
    storage,     \* localStorage['emailForSignIn']
    links,       \* the sign-in links the provider was asked to send
    ml,          \* the sendMagicLink call in progress or last finished
    so           \* the signOut call in progress or last finished

VARIABLES
    hc,          \* per browser: the signIn call of that browser in progress
    gen,         \* the last call of generateOTP
    cc,          \* the last createCompany / updateCompany call
    fv,          \* Cloud Functions: the last verifyOtp invocation
    fnCompared   \* history: per email, the guesses compared with the stored code

otpVars == <<otps, issued, srvNow, vcall, vlast, lastStored, validCount>>

authVars == <<users, companies, provider, authState, loads, call, now,
              budget, faulty>>

edgeVars == <<resp, sreq, outbox, fnOtps, fn, storage, links, ml, so>>

extVars == <<hc, gen, cc, fv, fnCompared>>

vars == <<otps, issued, srvNow, vcall, vlast, lastStored, validCount,
          users, companies, provider, authState, loads, call, now,
          budget, faulty,
          resp, sreq, outbox, fnOtps, fn, storage, links, ml, so,
          hc, gen, cc, fv, fnCompared>>

(***************************************************************************)
(* OTP store.                                                              *)
(***************************************************************************)
NoOtpDoc == [id |-> 0]
NoStore == [set |-> FALSE]

IdleCall ==
    [pc |-> "idle", email |-> "", otp |-> "", doc |-> NoOtpDoc, at |-> 0,
     result |-> FALSE, signal |-> "none",
     afterStore |-> NoStore, priorValid |-> FALSE]

\* otp.ts:16-24, the document storeOTP writes
OtpDoc(id, email, otp, t) ==
    [id |-> id, email |-> email, otp |-> otp,
     expiryTime |-> t + OTP_EXPIRY_MINUTES, createdAt |-> t]

\* otp.ts:46-52, the query on both fields
MatchingDocs_emailOnly(store, email, otp) ==
    {d \in store : d.email = email}

MatchingDocs(store, email, otp) ==
    {d \in store : d.email = email /\ d.otp = otp}

\* otp.ts:54-59, querySnapshot.empty / querySnapshot.docs[0].  The snapshot is
\* ordered by document id, and addDoc draws ids at random: any matching
\* document can be the first one.
FirstDocs(store, email, otp) ==
    IF MatchingDocs(store, email, otp) = {} THEN {NoOtpDoc}
    ELSE MatchingDocs(store, email, otp)

\* otp.ts:64
IsExpired_atOrAfter(t, expiryTime) == t >= expiryTime

IsExpired(t, expiryTime) == t > expiryTime

\* otp.ts:66 and otp.ts:71, deleteDoc(otpDoc.ref)
DeleteDoc_keep(store, doc) == store

DeleteDoc(store, doc) == {d \in store : d.id # doc.id}

\* otp.ts:54-73, what verifyOTP logs for the document it found
Signal(doc, t) ==
    IF doc = NoOtpDoc THEN "NotFound"
    ELSE IF IsExpired(t, doc.expiryTime) THEN "Expired"
    ELSE "Valid"

\* otp.ts:56, 67, 73: the boolean verifyOTP returns
Returned(signal) == signal = "Valid"

\* history: verifyOTP has returned true for this pair before
IssuedFor(email, otp) ==
    {d \in issued : d.email = email /\ d.otp = otp}

HadValid(email, otp) ==
    \E d \in IssuedFor(email, otp) : validCount[d.id] > 0

OtpInit ==
    /\ otps = {}
    /\ issued = {}
    /\ srvNow = 0
    /\ vcall = [r \in Callers |-> IdleCall]
    /\ vlast = IdleCall
    /\ lastStored = NoStore
    /\ validCount = [i \in DocIds |-> 0]

\* storeOTP(email, otp), otp.ts:10-37
StoreOTP(email, otp) ==
    /\ Cardinality(issued) < MaxDocs
    /\ LET d == OtpDoc(Cardinality(issued) + 1, email, otp, srvNow)
       IN  /\ otps' = otps \cup {d}
           /\ issued' = issued \cup {d}
    /\ lastStored' = [set |-> TRUE, email |-> email, otp |-> otp,
                      alone |-> \A d \in otps : d.email # email]
    /\ vlast' = IdleCall
    /\ UNCHANGED <<srvNow, vcall, validCount>>
    /\ UNCHANGED authVars
    /\ UNCHANGED edgeVars
    /\ UNCHANGED extVars

\* the state of a call whose query (getDocs) has returned with doc first
Queried(email, otp, doc) ==
    [IdleCall EXCEPT !.pc = "queried", !.email = email, !.otp = otp,
                     !.doc = doc]

\* the state of a call after the rest of verifyOTP has run at time t
Finished(c, t) ==
    [c EXCEPT !.pc = "done", !.at = t,
              !.signal = Signal(c.doc, t),
              !.result = Returned(Signal(c.doc, t))]

\* the collection after the rest of verifyOTP has run
StoreAfter_clearOnMiss(store, c) ==
    IF c.doc = NoOtpDoc THEN {d \in store : d.email # c.email}
    ELSE DeleteDoc(store, c.doc)

StoreAfter(store, c) ==
    IF c.doc = NoOtpDoc THEN store ELSE DeleteDoc(store, c.doc)

\* history: what preceded the return of the call c
WithHistory(c) ==
    [c EXCEPT !.afterStore = lastStored,
              !.priorValid = HadValid(c.email, c.otp)]

\* history: the call c has returned
CountAfter(c) ==
    IF c.result THEN [validCount EXCEPT ![c.doc.id] = @ + 1] ELSE validCount

\* verifyOTP(email, otp), otp.ts:39-81, one request handled with no other
\* request in flight
VerifyOTP(email, otp) ==
    /\ \A q \in Callers : vcall[q].pc = "idle"
    /\ \E doc \in FirstDocs(otps, email, otp) :
        LET c == Finished(Queried(email, otp, doc), srvNow)
        IN  /\ vlast' = WithHistory(c)
            /\ otps' = StoreAfter(otps, c)
            /\ validCount' = CountAfter(c)
    /\ lastStored' = NoStore
    /\ UNCHANGED <<issued, srvNow, vcall>>
    /\ UNCHANGED authVars
    /\ UNCHANGED edgeVars
    /\ UNCHANGED extVars

\* verifyOTP up to the return of getDocs (otp.ts:45-52)
VerifyQuery(r, email, otp) ==
    /\ vcall[r].pc = "idle"
    /\ \E doc \in FirstDocs(otps, email, otp) :
        vcall' = [vcall EXCEPT ![r] = Queried(email, otp, doc)]
    /\ lastStored' = NoStore
    /\ vlast' = IdleCall
    /\ UNCHANGED <<otps, issued, srvNow, validCount>>
    /\ UNCHANGED authVars
    /\ UNCHANGED edgeVars
    /\ UNCHANGED extVars

\* verifyOTP from the return of getDocs to its own return (otp.ts:54-73)
VerifyFinish(r) ==
    /\ vcall[r].pc = "queried"
    /\ LET c == Finished(vcall[r], srvNow)
       IN  /\ vcall' = [vcall EXCEPT ![r] = IdleCall]
           /\ vlast' = WithHistory(c)
           /\ otps' = StoreAfter(otps, c)
           /\ validCount' = CountAfter(c)
    /\ lastStored' = NoStore
    /\ UNCHANGED <<issued, srvNow>>
    /\ UNCHANGED authVars
    /\ UNCHANGED edgeVars
    /\ UNCHANGED extVars

\* minutes pass on the server
AdvanceSrvClock(d) ==
    /\ srvNow + d <= MaxSrvTime
    /\ srvNow' = srvNow + d
    /\ lastStored' = NoStore
    /\ vlast' = IdleCall
    /\ UNCHANGED <<otps, issued, vcall, validCount>>
    /\ UNCHANGED authVars
    /\ UNCHANGED edgeVars
    /\ UNCHANGED extVars

NextOtp ==
    \/ \E e \in Emails, c \in Codes : StoreOTP(e, c)
    \/ \E e \in Emails, c \in Codes : VerifyOTP(e, c)
    \/ \E d \in {1, OTP_EXPIRY_MINUTES} : AdvanceSrvClock(d)

NextOtpConc ==
    \/ \E e \in Emails, c \in Codes : StoreOTP(e, c)
    \/ \E r \in Callers, e \in Emails, c \in Codes : VerifyQuery(r, e, c)
    \/ \E r \in Callers : VerifyFinish(r)
    \/ \E d \in {1, OTP_EXPIRY_MINUTES} : AdvanceSrvClock(d)

(***************************************************************************)
(* Session / authentication manager (contexts/AuthContext).                *)
(*                                                                         *)
(* The source writes the Employee role as 'Employe' with an acute accent   *)
(* on its last letter; the model writes it without the accent.             *)
(***************************************************************************)
Uids == {"u1"}
Ips == {"1.2.3.4", "9.9.9.9"}
Roles == {"Employe", "EMPLOYE", "Admin", "PDG", "Dirigeant"}
CompanyNames == {"acme", "Ghost"}
ProviderErrors == {"auth/wrong-password", "auth/network-request-failed"}

\* String.prototype.toLowerCase on the strings that occur
ToLower(str) ==
    CASE str = "Employe" -> "employe"
      [] str = "EMPLOYE" -> "employe"
      [] str = "Admin" -> "admin"
      [] str = "PDG" -> "pdg"
      [] str = "Dirigeant" -> "dirigeant"
      [] str = "Acme" -> "acme"
      [] str = "ACME" -> "acme"
      [] str = "Ghost" -> "ghost"
      [] OTHER -> str

Range(seq) == {seq[i] : i \in DOMAIN seq}

NoProfile == [exists |-> FALSE]
NoUser == [exists |-> FALSE]
NoError == [kind |-> "none"]
NoReason == [kind |-> "none"]

\* a document of 'users'.  hasId: the document data has a field 'id' (holding
\* the uid).  No writer of this repository stores that field (users.ts:177-192,
\* signIn, loadUserData); documents written by other tools may carry it.
Profile(hasId, role, company) ==
    [exists |-> TRUE, hasId |-> hasId, role |-> role, company |-> company,
     lastLogin |-> 0, lastLoginIp |-> "", loginCount7Days |-> 0,
     loginHistory |-> <<>>]

\* a document of 'companies'; hasIps: the field allowedIps is present
Company(name, hasIps, allowedIps) ==
    [name |-> name, hasIps |-> hasIps, allowedIps |-> allowedIps]

\* the 'companies' collections explored
CompanyConfigs ==
    { <<Company("Acme", TRUE, <<"1.2.3.4">>)>>,
      <<Company("Acme", TRUE, <<>>)>>,
      <<Company("Acme", FALSE, <<>>)>>,
      <<Company("ACME", TRUE, <<"1.2.3.4">>), Company("Acme", TRUE, <<>>)>> }

\* validateIpRestrictions: role check
IsEmployeeRole_any(role) == TRUE

IsEmployeeRole(role) == ToLower(role) = "employe"

\* validateIpRestrictions: companiesSnapshot.docs.find(...), 0 when undefined
FindCompany(cs, company) ==
    IF \E i \in DOMAIN cs : ToLower(cs[i].name) = ToLower(company)
    THEN CHOOSE i \in DOMAIN cs :
            /\ ToLower(cs[i].name) = ToLower(company)
            /\ \A j \in DOMAIN cs :
                  ToLower(cs[j].name) = ToLower(company) => i <= j
    ELSE 0

\* validateIpRestrictions: allowedIps?.length > 0 && !allowedIps.includes(ip)
IpDenied(companyData, ipAddress) ==
    /\ companyData.hasIps
    /\ Len(companyData.allowedIps) > 0
    /\ ipAddress \notin Range(companyData.allowedIps)

\* validateIpRestrictions: errorMessage
AccessDenied(ipAddress, allowedIps) ==
    [kind |-> "AccesRefuse", ip |-> ipAddress, allowedIps |-> allowedIps]

Message(text) == [kind |-> "message", text |-> text]

\* validateIpRestrictions: the entry logged for a rejected attempt
FailedEntry(t, ipAddress, reason) ==
    [timestamp |-> t, ipAddress |-> ipAddress, status |-> "failed",
     reason |-> reason]

\* updateLoginHistory / signIn: the entry logged for an accepted attempt
SuccessEntry(t, ipAddress) ==
    [timestamp |-> t, ipAddress |-> ipAddress, status |-> "success",
     reason |-> NoReason]

\* Firestore arrayUnion: adds the element unless an equal one is present
ArrayUnion_replace(arr, e) == <<e>>

ArrayUnion(arr, e) ==
    IF e \in Range(arr) THEN arr ELSE Append(arr, e)

\* updateLoginHistory: loginCount7Days
CountLast7Days(loginHistory, t) ==
    Cardinality({i \in DOMAIN loginHistory :
                    loginHistory[i].timestamp > t - SEVEN_DAYS}) + 1

\* updateLoginHistory: the fields updateDoc writes, on the document doc that
\* the server holds, computed from the snapshot userData read earlier
HistoryUpdate_noLastIp(doc, userData, ipAddress, t) ==
    [doc EXCEPT !.lastLogin = t,
                !.loginCount7Days = CountLast7Days(userData.loginHistory, t),
                !.loginHistory = ArrayUnion(@, SuccessEntry(t, ipAddress))]

HistoryUpdate(doc, userData, ipAddress, t) ==
    [doc EXCEPT !.lastLogin = t,
                !.lastLoginIp = ipAddress,
                !.loginCount7Days = CountLast7Days(userData.loginHistory, t),
                !.loginHistory = ArrayUnion(@, SuccessEntry(t, ipAddress))]

\* signIn: defaultUserData
SignInDefaultUser(ipAddress, t) ==
    [exists |-> TRUE, hasId |-> FALSE, role |-> "Employe", company |-> "",
     lastLogin |-> t, lastLoginIp |-> ipAddress, loginCount7Days |-> 1,
     loginHistory |-> <<SuccessEntry(t, ipAddress)>>]

\* loadUserData: defaultUser
LoadDefaultUser(lastSignInTime) ==
    [exists |-> TRUE, hasId |-> FALSE, role |-> "Employe", company |-> "",
     lastLogin |-> lastSignInTime, lastLoginIp |-> "", loginCount7Days |-> 0,
     loginHistory |-> <<>>]

\* loadUserData: the User object put in the React state
LoadedUser(uid, userData, lastSignInTime) ==
    [exists |-> TRUE, id |-> uid, role |-> userData.role,
     company |-> userData.company, lastLogin |-> lastSignInTime,
     lastLoginIp |-> userData.lastLoginIp,
     loginCount7Days |-> userData.loginCount7Days,
     loginHistory |-> userData.loginHistory]

\* verifyMagicLink: the User object put in the React state
MagicLinkUser(uid, userData, ipAddress, t) ==
    [exists |-> TRUE, id |-> uid, role |-> userData.role,
     company |-> userData.company, lastLogin |-> t,
     lastLoginIp |-> ipAddress,
     loginCount7Days |-> IF userData.loginCount7Days = 0 THEN 1
                         ELSE userData.loginCount7Days,
     loginHistory |-> userData.loginHistory]

\* signIn: the user-facing message for a provider error
FriendlyMessage(msg) ==
    CASE msg = "auth/network-request-failed" ->
            Message("Probleme de connexion Internet")
      [] msg = "auth/wrong-password" ->
            Message("Email ou mot de passe incorrect.")
      [] OTHER -> Message(msg)

SignedOutState == [user |-> NoUser, isLoading |-> FALSE, error |-> NoError]

NoSession == [currentUser |-> "none", lastSignInTime |-> 0, ip |-> ""]

IdleAuthCall ==
    [kind |-> "none", pc |-> "idle", uid |-> "", clientIp |-> "",
     ipAddress |-> "", userData |-> NoProfile, ts |-> 0,
     errorMessage |-> NoError, result |-> "pending",
     denied |-> FALSE, failed |-> FALSE,
     hadProfile |-> FALSE, ipFailed |-> FALSE, email |-> ""]

\* the results a network call can have in this behaviour
Outcomes == IF faulty THEN BOOLEAN ELSE {TRUE}

\* the provider session after a sign-in of uid from the address ip
SessionFor(uid, ip) ==
    [currentUser |-> uid, lastSignInTime |-> now, ip |-> ip]

\* onAuthStateChanged callback for a signed-in user: it runs when the
\* provider's current user changes and starts loadUserData (await getDoc)
StartedLoads(uid) ==
    IF provider.currentUser # uid
    THEN Append(loads, [uid |-> uid, pc |-> "getDoc", lastSignInTime |-> now])
    ELSE loads

\* onAuthStateChanged callback for a null user: it runs when the provider's
\* current user changes to null
AfterSignOutEvent(state) ==
    IF provider.currentUser # "none" THEN SignedOutState ELSE state

RemoveAt(seq, i) ==
    [j \in 1..(Len(seq) - 1) |-> IF j < i THEN seq[j] ELSE seq[j + 1]]

\* getIpAddress, otp.ts:91-105: the address, or 'unknown' when the lookup
\* failed
ResolvedIp_empty(ok, clientIp) == IF ok THEN clientIp ELSE ""

ResolvedIp(ok, clientIp) == IF ok THEN clientIp ELSE "unknown"

\* the call has returned (resolved) or thrown (rejected)
Settled_rejected(c, result) == [c EXCEPT !.pc = "done", !.result = "rejected"]

Settled(c, result) == [c EXCEPT !.pc = "done", !.result = result]

NewCall(kind, uid, ip) ==
    [IdleAuthCall EXCEPT !.kind = kind, !.pc = "provider", !.uid = uid,
                         !.clientIp = ip,
                         !.hadProfile = users[uid].exists]

CanStart ==
    /\ call.pc \in {"idle", "done"}
    /\ budget > 0

(***************************************************************************)
(* signIn(email, password)                                                 *)
(***************************************************************************)

\* signIn up to the call of firebaseSignIn
SignInStart(uid, ip) ==
    /\ CanStart
    /\ authState' = [authState EXCEPT !.isLoading = TRUE, !.error = NoError]
    /\ call' = NewCall("signIn", uid, ip)
    /\ budget' = budget - 1
    /\ UNCHANGED <<users, companies, provider, loads, now, faulty>>
    /\ UNCHANGED otpVars
    /\ UNCHANGED edgeVars
    /\ UNCHANGED extVars

\* firebaseSignIn resolves: the session is established, the listener runs
SignInProviderOk ==
    /\ call.kind = "signIn" /\ call.pc = "provider"
    /\ provider' = SessionFor(call.uid, call.clientIp)
    /\ loads' = StartedLoads(call.uid)
    /\ call' = [call EXCEPT !.pc = "getIp",
                            !.hadProfile = users[call.uid].exists]
    /\ UNCHANGED <<users, companies, authState, now, budget, faulty>>
    /\ UNCHANGED otpVars
    /\ UNCHANGED edgeVars
    /\ UNCHANGED extVars

\* firebaseSignIn rejects: the outer catch of signIn
SignInProviderFail(code) ==
    /\ call.kind = "signIn" /\ call.pc = "provider"
    /\ authState' = [authState EXCEPT !.isLoading = FALSE,
                                      !.error = FriendlyMessage(code)]
    /\ call' = Settled([call EXCEPT !.errorMessage = Message(code)], "rejected")
    /\ UNCHANGED <<users, companies, provider, loads, now, budget, faulty>>
    /\ UNCHANGED otpVars
    /\ UNCHANGED edgeVars
    /\ UNCHANGED extVars

\* getIpAddress returns: the address, or 'unknown' when the lookup failed
SignInGetIp(ok) ==
    /\ call.kind = "signIn" /\ call.pc = "getIp"
    /\ call' = [call EXCEPT !.pc = "getDoc",
                            !.ipAddress = ResolvedIp(ok, call.clientIp),
                            !.ipFailed = ~ok]
    /\ UNCHANGED <<users, companies, provider, authState, loads, now,
                   budget, faulty>>
    /\ UNCHANGED otpVars
    /\ UNCHANGED edgeVars
    /\ UNCHANGED extVars

\* getDoc(userRef) returns; a role other than Employee passes
\* validateIpRestrictions at once
SignInGetDoc(ok) ==
    /\ call.kind = "signIn" /\ call.pc = "getDoc"
    /\ IF ~ok
       THEN /\ call' = Settled([call EXCEPT !.failed = TRUE], "resolved")
            /\ now' = now
       ELSE IF ~users[call.uid].exists
       THEN /\ call' = [call EXCEPT !.pc = "create", !.ts = now]
            /\ now' = now + 1
       ELSE IF IsEmployeeRole(users[call.uid].role)
       THEN /\ call' = [call EXCEPT !.pc = "companies",
                                    !.userData = users[call.uid]]
            /\ now' = now
       ELSE /\ call' = [call EXCEPT !.pc = "history", !.ts = now,
                                    !.userData = users[call.uid]]
            /\ now' = now + 1
    /\ UNCHANGED <<users, companies, provider, authState, loads, budget,
                   faulty>>
    /\ UNCHANGED otpVars
    /\ UNCHANGED edgeVars
    /\ UNCHANGED extVars

\* validateIpRestrictions: getDocs(companiesRef) returns.  On a denied address
\* doc(db, 'users', userData.id) throws when the document has no field id; that
\* error, like a failed getDocs, is caught and logged by the outer catch of
\* validateIpRestrictions and the sign-in goes on.
SignInCompanies(ok) ==
    /\ call.kind = "signIn" /\ call.pc = "companies"
    /\ LET i == FindCompany(companies, call.userData.company)
           denied == ok /\ i # 0 /\ IpDenied(companies[i], call.ipAddress)
       IN  IF denied /\ call.userData.hasId
           THEN call' = [call EXCEPT !.pc = "logFailed", !.ts = now,
                            !.errorMessage =
                                AccessDenied(call.ipAddress, companies[i].allowedIps)]
           ELSE call' = [call EXCEPT !.pc = "history", !.ts = now,
                            !.failed = call.failed \/ ~ok]
    /\ now' = now + 1
    /\ UNCHANGED <<users, companies, provider, authState, loads, budget,
                   faulty>>
    /\ UNCHANGED otpVars
    /\ UNCHANGED edgeVars
    /\ UNCHANGED extVars

\* validateIpRestrictions: updateDoc with the 'failed' entry returns, the
\* error is thrown; signIn's inner catch sets the state and calls
\* firebaseSignOut
SignInLogFailed(ok) ==
    /\ call.kind = "signIn" /\ call.pc = "logFailed"
    /\ users' = IF ok /\ users[call.uid].exists
                THEN [users EXCEPT ![call.uid].loginHistory =
                        ArrayUnion(@, FailedEntry(call.ts, call.ipAddress,
                                                  call.errorMessage))]
                ELSE users
    /\ authState' = [user |-> NoUser, isLoading |-> FALSE,
                     error |-> call.errorMessage]
    /\ call' = [call EXCEPT !.pc = "signOut", !.denied = TRUE,
                            !.failed = call.failed \/ ~ok]
    /\ UNCHANGED <<companies, provider, loads, now, budget, faulty>>
    /\ UNCHANGED otpVars
    /\ UNCHANGED edgeVars
    /\ UNCHANGED extVars

\* firebaseSignOut returns, the listener runs; the error rethrown by the inner
\* catch is caught by the catch around the Firestore block: signIn resolves
SignInSignOut(ok) ==
    /\ call.kind = "signIn" /\ call.pc = "signOut"
    /\ provider' = IF ok THEN NoSession ELSE provider
    /\ authState' = IF ok THEN AfterSignOutEvent(authState) ELSE authState
    /\ call' = Settled([call EXCEPT !.failed = call.failed \/ ~ok], "resolved")
    /\ UNCHANGED <<users, companies, loads, now, budget, faulty>>
    /\ UNCHANGED otpVars
    /\ UNCHANGED edgeVars
    /\ UNCHANGED extVars

\* updateLoginHistory: updateDoc returns; a failure is logged and ignored
SignInHistory(ok) ==
    /\ call.kind = "signIn" /\ call.pc = "history"
    /\ users' = IF ok /\ users[call.uid].exists
                THEN [users EXCEPT ![call.uid] =
                        HistoryUpdate(@, call.userData, call.ipAddress, call.ts)]
                ELSE users
    /\ call' = Settled([call EXCEPT !.failed = call.failed \/ ~ok], "resolved")
    /\ UNCHANGED <<companies, provider, authState, loads, now, budget,
                   faulty>>
    /\ UNCHANGED otpVars
    /\ UNCHANGED edgeVars
    /\ UNCHANGED extVars

\* setDoc(userRef, defaultUserData) returns; a failure is logged and ignored
SignInCreate(ok) ==
    /\ call.kind = "signIn" /\ call.pc = "create"
    /\ users' = IF ok
                THEN [users EXCEPT ![call.uid] =
                        SignInDefaultUser(call.ipAddress, call.ts)]
                ELSE users
    /\ call' = Settled([call EXCEPT !.failed = call.failed \/ ~ok], "resolved")
    /\ UNCHANGED <<companies, provider, authState, loads, now, budget,
                   faulty>>
    /\ UNCHANGED otpVars
    /\ UNCHANGED edgeVars
    /\ UNCHANGED extVars

(***************************************************************************)
(* verifyMagicLink()                                                       *)
(***************************************************************************)

\* verifyMagicLink: the user-facing message for a provider error
MagicLinkMessage(msg) ==
    CASE msg = "auth/network-request-failed" -> Message("Network error.")
      [] msg = "auth/invalid-link" -> Message("Invalid or expired magic link.")
      [] OTHER -> Message(msg)

\* verifyMagicLink: the catch block
MagicLinkFailure(msg) ==
    [authState EXCEPT !.isLoading = FALSE, !.error = MagicLinkMessage(msg)]

\* localStorage.removeItem('emailForSignIn'): the slot afterwards ("" is an
\* absent key)
PendingAfterSignIn_kept(slot) == slot

PendingAfterSignIn(slot) == ""

\* verifyMagicLink on a sign-in link, up to the call of signInWithEmailLink,
\* which is given the email read from localStorage ("" for null)
VmlStart(uid, ip) ==
    /\ CanStart
    /\ authState' = [authState EXCEPT !.isLoading = TRUE, !.error = NoError]
    /\ call' = [NewCall("vml", uid, ip) EXCEPT !.email = storage]
    /\ budget' = budget - 1
    /\ UNCHANGED <<users, companies, provider, loads, now, faulty>>
    /\ UNCHANGED otpVars
    /\ UNCHANGED edgeVars
    /\ UNCHANGED extVars

\* verifyMagicLink on a URL that is not a sign-in link
VmlInvalidLink ==
    /\ CanStart
    /\ authState' = MagicLinkFailure("Invalid magic link")
    /\ call' = Settled([IdleAuthCall EXCEPT !.kind = "vml",
                            !.errorMessage = Message("Invalid magic link")],
                       "rejected")
    /\ budget' = budget - 1
    /\ UNCHANGED <<users, companies, provider, loads, now, faulty>>
    /\ UNCHANGED otpVars
    /\ UNCHANGED edgeVars
    /\ UNCHANGED extVars

\* signInWithEmailLink resolves: the session is established, the listener
\* runs, and the pending email is removed from localStorage
VmlProviderOk ==
    /\ call.kind = "vml" /\ call.pc = "provider"
    /\ provider' = SessionFor(call.uid, call.clientIp)
    /\ loads' = StartedLoads(call.uid)
    /\ call' = [call EXCEPT !.pc = "getIp",
                            !.hadProfile = users[call.uid].exists]
    /\ storage' = PendingAfterSignIn(storage)
    /\ UNCHANGED <<users, companies, authState, now, budget, faulty>>
    /\ UNCHANGED otpVars
    /\ UNCHANGED <<resp, sreq, outbox, fnOtps, fn, links, ml, so>>
    /\ UNCHANGED extVars

\* signInWithEmailLink rejects
VmlProviderFail(code) ==
    /\ call.kind = "vml" /\ call.pc = "provider"
    /\ authState' = MagicLinkFailure(code)
    /\ call' = Settled([call EXCEPT !.errorMessage = Message(code)], "rejected")
    /\ UNCHANGED <<users, companies, provider, loads, now, budget, faulty>>
    /\ UNCHANGED otpVars
    /\ UNCHANGED edgeVars
    /\ UNCHANGED extVars

\* getIpAddress returns
VmlGetIp(ok) ==
    /\ call.kind = "vml" /\ call.pc = "getIp"
    /\ call' = [call EXCEPT !.pc = "getDoc",
                            !.ipAddress = ResolvedIp(ok, call.clientIp),
                            !.ipFailed = ~ok]
    /\ UNCHANGED <<users, companies, provider, authState, loads, now,
                   budget, faulty>>
    /\ UNCHANGED otpVars
    /\ UNCHANGED edgeVars
    /\ UNCHANGED extVars

\* getDoc(userRef) returns; the IP check is commented out in the source
VmlGetDoc(ok) ==
    /\ call.kind = "vml" /\ call.pc = "getDoc"
    /\ IF ~ok
       THEN /\ call' = Settled([call EXCEPT !.failed = TRUE,
                        !.errorMessage = Message("auth/network-request-failed")],
                        "rejected")
            /\ authState' = MagicLinkFailure("auth/network-request-failed")
            /\ now' = now
       ELSE IF ~users[call.uid].exists
       THEN /\ call' = Settled([call EXCEPT
                        !.errorMessage = Message("User data not found.")],
                        "rejected")
            /\ authState' = MagicLinkFailure("User data not found.")
            /\ now' = now
       ELSE /\ call' = [call EXCEPT !.pc = "history", !.ts = now,
                                    !.userData = users[call.uid]]
            /\ authState' = authState
            /\ now' = now + 1
    /\ UNCHANGED <<users, companies, provider, loads, budget, faulty>>
    /\ UNCHANGED otpVars
    /\ UNCHANGED edgeVars
    /\ UNCHANGED extVars

\* updateLoginHistory returns (a failure of updateDoc is logged and ignored),
\* then the user is put in the React state
VmlHistory(ok) ==
    /\ call.kind = "vml" /\ call.pc = "history"
    /\ users' = IF ok /\ users[call.uid].exists
                THEN [users EXCEPT ![call.uid] =
                        HistoryUpdate(@, call.userData, call.ipAddress, call.ts)]
                ELSE users
    /\ authState' = [user |-> MagicLinkUser(call.uid, call.userData,
                                            call.ipAddress, call.ts),
                     isLoading |-> FALSE, error |-> NoError]
    /\ call' = Settled([call EXCEPT !.failed = call.failed \/ ~ok], "resolved")
    /\ UNCHANGED <<companies, provider, loads, now, budget, faulty>>
    /\ UNCHANGED otpVars
    /\ UNCHANGED edgeVars
    /\ UNCHANGED extVars

(***************************************************************************)
(* The auth-state listener: loadUserData                                   *)
(***************************************************************************)
LoadFailure ==
    [user |-> NoUser, isLoading |-> FALSE,
     error |-> Message("Impossible de charger les donnees utilisateur.")]

\* loadUserData: getDoc(userRef) returns
LoadGetDoc(i, ok) ==
    /\ i \in DOMAIN loads /\ loads[i].pc = "getDoc"
    /\ IF ~ok
       THEN /\ authState' = LoadFailure
            /\ loads' = RemoveAt(loads, i)
       ELSE IF users[loads[i].uid].exists
       THEN /\ authState' = [user |-> LoadedUser(loads[i].uid, users[loads[i].uid],
                                                 loads[i].lastSignInTime),
                             isLoading |-> FALSE, error |-> NoError]
            /\ loads' = RemoveAt(loads, i)
       ELSE /\ authState' = authState
            /\ loads' = [loads EXCEPT ![i].pc = "setDoc"]
    /\ UNCHANGED <<users, companies, provider, call, now, budget, faulty>>
    /\ UNCHANGED otpVars
    /\ UNCHANGED edgeVars
    /\ UNCHANGED extVars

\* loadUserData: setDoc(defaultUser) returns
LoadSetDoc(i, ok) ==
    /\ i \in DOMAIN loads /\ loads[i].pc = "setDoc"
    /\ IF ok
       THEN /\ users' = [users EXCEPT ![loads[i].uid] =
                            LoadDefaultUser(loads[i].lastSignInTime)]
            /\ authState' = [user |-> LoadedUser(loads[i].uid,
                                        LoadDefaultUser(loads[i].lastSignInTime),
                                        loads[i].lastSignInTime),
                             isLoading |-> FALSE, error |-> NoError]
       ELSE /\ users' = users
            /\ authState' = LoadFailure
    /\ loads' = RemoveAt(loads, i)
    /\ UNCHANGED <<companies, provider, call, now, budget, faulty>>
    /\ UNCHANGED otpVars
    /\ UNCHANGED edgeVars
    /\ UNCHANGED extVars

\* days pass between two calls
AdvanceClock(d) ==
    /\ call.pc = "done"
    /\ now + d <= MaxTime
    /\ now' = now + d
    /\ UNCHANGED <<users, companies, provider, authState, loads, call,
                   budget, faulty>>
    /\ UNCHANGED otpVars
    /\ UNCHANGED edgeVars
    /\ UNCHANGED extVars

(***************************************************************************)
(* API routes, Cloud Functions, and the remaining calls of AuthContext.    *)
(***************************************************************************)
NoResponse == [route |-> "none"]
NoCookie == [set |-> FALSE]
IdleSendRequest ==
    [pc |-> "idle", email |-> "", otp |-> "", issuedBefore |-> 0,
     outboxBefore |-> 0]
NoFnDoc == [exists |-> FALSE]
IdleFn ==
    [pc |-> "idle", email |-> "", otp |-> "", attempt |-> 0, sends |-> 0,
     slept |-> 0, outcomes |-> <<>>, retry |-> "none", thrown |-> "none",
     result |-> "pending"]
IdleLinkCall ==
    [pc |-> "idle", email |-> "", result |-> "pending", calls |-> 0,
     queried |-> FALSE, found |-> FALSE, asked |-> FALSE, before |-> ""]
IdleSignOut ==
    [pc |-> "idle", role |-> "", result |-> "pending", reloaded |-> FALSE]
IdleBrowserCall ==
    [pc |-> "idle", uid |-> "", ip |-> "", userData |-> NoProfile, ts |-> 0,
     result |-> "pending"]
NoDraw == [drawn |-> FALSE]
NoCompanyCall == [op |-> "none"]
NoFnVerify ==
    [pc |-> "idle", seq |-> 0, email |-> "", otp |-> "", read |-> FALSE,
     compared |-> FALSE, token |-> FALSE, thrown |-> "none",
     result |-> "pending"]

EdgeInit ==
    /\ resp = NoResponse
    /\ sreq = IdleSendRequest
    /\ outbox = <<>>
    /\ fnOtps = [e \in Emails |-> NoFnDoc]
    /\ fn = IdleFn
    /\ storage = ""
    /\ links = {}
    /\ ml = IdleLinkCall
    /\ so = IdleSignOut
    /\ hc = [b \in Callers |-> IdleBrowserCall]
    /\ gen = NoDraw
    /\ cc = NoCompanyCall
    /\ fv = NoFnVerify
    /\ fnCompared = [e \in Emails |-> 0]

(***************************************************************************)
(* Initial states and specifications.                                      *)
(***************************************************************************)
AuthStart ==
    /\ provider = NoSession
    /\ authState = SignedOutState
    /\ loads = <<>>
    /\ call = IdleAuthCall
    /\ now = 0

\* the database as the authentication manager finds it
AuthInit ==
    /\ users \in [Uids -> {NoProfile} \cup
                    {Profile(h, r, c) : h \in BOOLEAN, r \in Roles,
                                        c \in CompanyNames}]
    /\ companies \in CompanyConfigs
    /\ AuthStart
    /\ budget = MaxAttempts

\* the database for a series of calls of one Employee or Admin whose profile
\* exists
AuthInitSeq ==
    /\ users \in [Uids -> {Profile(h, r, "acme") :
                            h \in BOOLEAN, r \in {"Employe", "Admin"}}]
    /\ companies \in {<<Company("Acme", TRUE, <<"1.2.3.4">>)>>,
                      <<Company("Acme", TRUE, <<>>)>>}
    /\ AuthStart
    /\ budget = MaxSeqAttempts

\* the authentication manager is not used
AuthUnused ==
    /\ users = [u \in Uids |-> NoProfile]
    /\ companies = <<>>
    /\ AuthStart
    /\ budget = 0
    /\ faulty = FALSE

Init == AuthInit /\ OtpInit /\ EdgeInit /\ faulty = FALSE

InitFault == AuthInit /\ OtpInit /\ EdgeInit /\ faulty = TRUE

InitSeq == AuthInitSeq /\ OtpInit /\ EdgeInit /\ faulty = FALSE

InitOtp == OtpInit /\ AuthUnused /\ EdgeInit

\* the steps that can be taken when the profile of the caller exists
NextExisting ==
    \/ \E u \in Uids, ip \in Ips : SignInStart(u, ip)
    \/ SignInProviderOk
    \/ \E code \in ProviderErrors : SignInProviderFail(code)
    \/ \E ok \in Outcomes : SignInGetIp(ok)
    \/ \E ok \in Outcomes : SignInGetDoc(ok)
    \/ \E ok \in Outcomes : SignInCompanies(ok)
    \/ \E ok \in Outcomes : SignInLogFailed(ok)
    \/ \E ok \in Outcomes : SignInSignOut(ok)
    \/ \E ok \in Outcomes : SignInHistory(ok)
    \/ \E u \in Uids, ip \in Ips : VmlStart(u, ip)
    \/ VmlInvalidLink
    \/ VmlProviderOk
    \/ \E code \in ProviderErrors : VmlProviderFail(code)
    \/ \E ok \in Outcomes : VmlGetIp(ok)
    \/ \E ok \in Outcomes : VmlGetDoc(ok)
    \/ \E ok \in Outcomes : VmlHistory(ok)
    \/ \E i \in 1..MaxSeqAttempts, ok \in Outcomes : LoadGetDoc(i, ok)
    \/ \E d \in {1, SEVEN_DAYS} : AdvanceClock(d)

Next ==
    \/ NextExisting
    \/ \E ok \in Outcomes : SignInCreate(ok)
    \/ \E i \in 1..MaxSeqAttempts, ok \in Outcomes : LoadSetDoc(i, ok)

Spec == Init /\ [][Next]_vars

SpecFault == InitFault /\ [][Next]_vars

SpecSeq == InitSeq /\ [][NextExisting]_vars

\* a provider call or a database call of a call in progress, or of the
\* listener, returns
CallReturns ==
    \/ SignInProviderOk
    \/ \E code \in ProviderErrors : SignInProviderFail(code)
    \/ \E ok \in Outcomes : SignInGetIp(ok)
    \/ \E ok \in Outcomes : SignInGetDoc(ok)
    \/ \E ok \in Outcomes : SignInCompanies(ok)
    \/ \E ok \in Outcomes : SignInLogFailed(ok)
    \/ \E ok \in Outcomes : SignInSignOut(ok)
    \/ \E ok \in Outcomes : SignInHistory(ok)
    \/ VmlProviderOk
    \/ \E code \in ProviderErrors : VmlProviderFail(code)
    \/ \E ok \in Outcomes : VmlGetIp(ok)
    \/ \E ok \in Outcomes : VmlGetDoc(ok)
    \/ \E ok \in Outcomes : VmlHistory(ok)
    \/ \E i \in 1..MaxSeqAttempts, ok \in Outcomes : LoadGetDoc(i, ok)

\* a series of calls in which every provider and database call returns
SpecLive == InitSeq /\ [][NextExisting]_vars /\ WF_vars(CallReturns)

SpecOtp == InitOtp /\ [][NextOtp]_vars

SpecOtpConc == InitOtp /\ [][NextOtpConc]_vars

(***************************************************************************)
(* API routes: POST /api/verify-otp and POST /api/send-otp.                *)
(***************************************************************************)
\* the email of the account uid at the identity provider and in 'users'
EmailOf(uid) == "a@b.com"

\* the emails of the documents that 'users' holds for other accounts
OtherAccountEmails == {"c@d.com"}

\* getDocs(query(usersRef, where('email', '==', email))) is not empty
EmailHasProfile(email) ==
    \/ \E u \in Uids : EmailOf(u) = email /\ users[u].exists
    \/ email \in OtherAccountEmails

\* the values of a field of a request body; "" stands for a missing one
BodyEmails == {"a@b.com", ""}
BodyCodes == {"123456", "654321", ""}

\* the codes generateOTP draws in the requests explored
DrawnCodes == {"123456"}

\* !email, !otp
Missing(field) == field = ""

\* verify-otp/route.ts:30-42, the token and the options of the cookie
SessionCookie(email, t) ==
    [set |-> TRUE, name |-> "session", signed |-> TRUE, email |-> email,
     iat |-> t, expiresIn |-> "7d", httpOnly |-> TRUE, sameSite |-> "strict",
     maxAge |-> 7 * 24 * 60 * 60]

\* verify-otp/route.ts:22-47, the response for the boolean verifyOTP returned
VerifyOtpResponse_always(isValid, email, t) ==
    [status |-> 200, cookie |-> SessionCookie(email, t)]

VerifyOtpResponse(isValid, email, t) ==
    IF isValid
    THEN [status |-> 200, cookie |-> SessionCookie(email, t)]
    ELSE [status |-> 400, cookie |-> NoCookie]

\* the response of verify-otp with the request it answers; accessed: verifyOTP
\* was called; verdict: what verifyOTP found, "none" when it was not called,
\* "threw" when it threw
VerifyAnswer(r, email, otp, ip, accessed, verdict) ==
    [route |-> "verify-otp", status |-> r.status, cookie |-> r.cookie,
     email |-> email, otp |-> otp, ip |-> ip, accessed |-> accessed,
     verdict |-> verdict, issuedBefore |-> 0, outboxBefore |-> 0]

\* POST /api/verify-otp, one request handled with no other request in flight
PostVerifyOtp(email, otp, ip, ok) ==
    /\ \A q \in Callers : vcall[q].pc = "idle"
    /\ sreq.pc = "idle"
    /\ IF Missing(email) \/ Missing(otp)
       THEN /\ resp' = VerifyAnswer([status |-> 400, cookie |-> NoCookie],
                                    email, otp, ip, FALSE, "none")
            /\ vlast' = IdleCall
            /\ UNCHANGED <<otps, validCount>>
       ELSE IF ~ok
       THEN /\ resp' = VerifyAnswer([status |-> 500, cookie |-> NoCookie],
                                    email, otp, ip, TRUE, "threw")
            /\ vlast' = IdleCall
            /\ UNCHANGED <<otps, validCount>>
       ELSE \E doc \in FirstDocs(otps, email, otp) :
            LET c == Finished(Queried(email, otp, doc), srvNow)
            IN  /\ vlast' = WithHistory(c)
                /\ otps' = StoreAfter(otps, c)
                /\ validCount' = CountAfter(c)
                /\ resp' = VerifyAnswer(
                             VerifyOtpResponse(c.result, email, srvNow),
                             email, otp, ip, TRUE, c.signal)
    /\ lastStored' = NoStore
    /\ UNCHANGED <<issued, srvNow, vcall>>
    /\ UNCHANGED authVars
    /\ UNCHANGED <<sreq, outbox, fnOtps, fn, storage, links, ml, so>>
    /\ UNCHANGED extVars

\* send-otp route: the status returned after storeOTP and sendOTPEmail
SendOtpStatus_ignoreMail(stored, mailed) ==
    IF stored THEN 200 ELSE 500

SendOtpStatus(stored, mailed) ==
    IF stored /\ mailed THEN 200 ELSE 500

\* the response of send-otp with the request it answers
SendAnswer(status, email, otp, issuedBefore, outboxBefore) ==
    [route |-> "send-otp", status |-> status, cookie |-> NoCookie,
     email |-> email, otp |-> otp, ip |-> "", accessed |-> FALSE,
     verdict |-> "none", issuedBefore |-> issuedBefore,
     outboxBefore |-> outboxBefore]

\* POST /api/send-otp up to the return of storeOTP; otp is the code that
\* generateOTP drew
PostSendOtp(email, otp, ok) ==
    /\ \A q \in Callers : vcall[q].pc = "idle"
    /\ sreq.pc = "idle"
    /\ Missing(email) \/ ~ok \/ Cardinality(issued) < MaxDocs
    /\ IF Missing(email)
       THEN /\ resp' = SendAnswer(400, email, "", Cardinality(issued),
                                  Len(outbox))
            /\ UNCHANGED <<otps, issued, sreq>>
       ELSE IF ~ok
       THEN /\ resp' = SendAnswer(SendOtpStatus(FALSE, FALSE), email, otp,
                                  Cardinality(issued), Len(outbox))
            /\ UNCHANGED <<otps, issued, sreq>>
       ELSE /\ LET d == OtpDoc(Cardinality(issued) + 1, email, otp, srvNow)
               IN  /\ otps' = otps \cup {d}
                   /\ issued' = issued \cup {d}
            /\ sreq' = [pc |-> "mail", email |-> email, otp |-> otp,
                        issuedBefore |-> Cardinality(issued),
                        outboxBefore |-> Len(outbox)]
            /\ resp' = NoResponse
    /\ lastStored' = NoStore
    /\ vlast' = IdleCall
    /\ UNCHANGED <<srvNow, vcall, validCount>>
    /\ UNCHANGED authVars
    /\ UNCHANGED <<outbox, fnOtps, fn, storage, links, ml, so>>
    /\ UNCHANGED extVars

\* POST /api/send-otp: sendOTPEmail returns or throws
SendOtpMail(ok) ==
    /\ sreq.pc = "mail"
    /\ outbox' = IF ok
                 THEN Append(outbox, [to |-> sreq.email, otp |-> sreq.otp])
                 ELSE outbox
    /\ resp' = SendAnswer(SendOtpStatus(TRUE, ok), sreq.email, sreq.otp,
                          sreq.issuedBefore, sreq.outboxBefore)
    /\ sreq' = IdleSendRequest
    /\ lastStored' = NoStore
    /\ vlast' = IdleCall
    /\ UNCHANGED <<otps, issued, srvNow, vcall, validCount>>
    /\ UNCHANGED authVars
    /\ UNCHANGED <<fnOtps, fn, storage, links, ml, so>>
    /\ UNCHANGED extVars

\* the profiles and companies the routes could consult, and do not
AuthInitApi ==
    /\ users \in [Uids -> {NoProfile, Profile(TRUE, "Employe", "acme")}]
    /\ companies = <<Company("Acme", TRUE, <<"1.2.3.4">>)>>
    /\ AuthStart
    /\ budget = 0
    /\ faulty = TRUE

InitApi == OtpInit /\ AuthInitApi /\ EdgeInit

NextApi ==
    \/ \E e \in BodyEmails, c \in DrawnCodes, ok \in BOOLEAN :
          PostSendOtp(e, c, ok)
    \/ \E ok \in BOOLEAN : SendOtpMail(ok)
    \/ \E e \in BodyEmails, c \in BodyCodes, ip \in Ips, ok \in BOOLEAN :
          PostVerifyOtp(e, c, ip, ok)
    \/ \E d \in {1, OTP_EXPIRY_MINUTES} : AdvanceSrvClock(d)

SpecApi == InitApi /\ [][NextApi]_vars

(***************************************************************************)
(* sendMagicLink(email) and signOut()                                      *)
(***************************************************************************)
\* the arguments of sendMagicLink explored: two well-formed addresses, the
\* empty string, a string without '@', and a string that has an '@' and no
\* domain
LinkEmails == {"a@b.com", "c@d.com", "", "nobody", "x@"}

\* email.includes('@')
IncludesAt(email) == email \in {"a@b.com", "c@d.com", "x@"}

\* sendMagicLink: !email || !email.includes('@') is false
PassesEmailCheck_any(email) == TRUE

PassesEmailCheck(email) == email # "" /\ IncludesAt(email)

\* sendMagicLink: the catch block
LinkFailure(msg) ==
    [authState EXCEPT !.isLoading = FALSE, !.error = Message(msg)]

\* sendMagicLink up to the await of getDocs; an email that fails the check
\* throws before it
MlStart(email) ==
    /\ ml.pc \in {"idle", "done"} /\ ml.calls < MaxLinkCalls
    /\ call.pc = "idle" /\ so.pc = "idle"
    /\ IF PassesEmailCheck(email)
       THEN /\ ml' = [IdleLinkCall EXCEPT !.pc = "query", !.email = email,
                         !.calls = ml.calls + 1, !.before = storage]
            /\ authState' = [authState EXCEPT !.isLoading = TRUE,
                                              !.error = NoError]
       ELSE /\ ml' = [IdleLinkCall EXCEPT !.pc = "done", !.email = email,
                         !.calls = ml.calls + 1, !.before = storage,
                         !.result = "rejected"]
            /\ authState' = LinkFailure("Invalid email address")
    /\ UNCHANGED <<users, companies, provider, loads, call, now, budget,
                   faulty>>
    /\ UNCHANGED otpVars
    /\ UNCHANGED <<resp, sreq, outbox, fnOtps, fn, storage, links, so>>
    /\ UNCHANGED extVars

\* sendMagicLink: getDocs(where email == email) returns
MlQuery(ok) ==
    /\ ml.pc = "query"
    /\ IF ~ok
       THEN /\ ml' = [ml EXCEPT !.pc = "done", !.queried = TRUE,
                                !.result = "rejected"]
            /\ authState' = LinkFailure("Network error.")
       ELSE IF ~EmailHasProfile(ml.email)
       THEN /\ ml' = [ml EXCEPT !.pc = "done", !.queried = TRUE,
                                !.result = "rejected"]
            /\ authState' = LinkFailure("Aucun compte trouve")
       ELSE /\ ml' = [ml EXCEPT !.pc = "send", !.queried = TRUE,
                                !.found = TRUE]
            /\ authState' = authState
    /\ UNCHANGED <<users, companies, provider, loads, call, now, budget,
                   faulty>>
    /\ UNCHANGED otpVars
    /\ UNCHANGED <<resp, sreq, outbox, fnOtps, fn, storage, links, so>>
    /\ UNCHANGED extVars

\* sendMagicLink: sendSignInLinkToEmail returns, then localStorage.setItem
MlSend(ok) ==
    /\ ml.pc = "send"
    /\ IF ok
       THEN /\ links' = links \cup {ml.email}
            /\ storage' = ml.email
            /\ ml' = [ml EXCEPT !.pc = "done", !.asked = TRUE,
                                !.result = "resolved"]
            /\ authState' = [authState EXCEPT !.isLoading = FALSE,
                                              !.error = NoError]
       ELSE /\ links' = links
            /\ storage' = storage
            /\ ml' = [ml EXCEPT !.pc = "done", !.asked = TRUE,
                                !.result = "rejected"]
            /\ authState' = LinkFailure("Network error.")
    /\ UNCHANGED <<users, companies, provider, loads, call, now, budget,
                   faulty>>
    /\ UNCHANGED otpVars
    /\ UNCHANGED <<resp, sreq, outbox, fnOtps, fn, so>>
    /\ UNCHANGED extVars

\* signOut: currentUserRole !== 'Admin'
ReloadNeeded_always(role) == TRUE

ReloadNeeded(role) == role # "Admin"

\* signOut up to the await of firebaseSignOut: authState.user?.role is read
SoStart ==
    /\ so.pc \in {"idle", "done"}
    /\ call.pc = "done" /\ budget = 0
    /\ ml.pc \in {"idle", "done"}
    /\ so' = [IdleSignOut EXCEPT !.pc = "provider",
                 !.role = IF authState.user.exists THEN authState.user.role
                          ELSE "undefined"]
    /\ UNCHANGED authVars
    /\ UNCHANGED otpVars
    /\ UNCHANGED <<resp, sreq, outbox, fnOtps, fn, storage, links, ml>>
    /\ UNCHANGED extVars

\* firebaseSignOut returns (the listener runs for the null user) or throws
\* (the catch block of signOut)
SoProvider(ok) ==
    /\ so.pc = "provider"
    /\ IF ok
       THEN /\ provider' = NoSession
            /\ authState' = AfterSignOutEvent(authState)
            /\ so' = [so EXCEPT !.pc = "clear"]
       ELSE /\ provider' = provider
            /\ authState' = [authState EXCEPT !.error =
                                Message("Probleme lors de la deconnexion.")]
            /\ so' = [so EXCEPT !.pc = "done", !.result = "rejected"]
    /\ UNCHANGED <<users, companies, loads, call, now, budget, faulty>>
    /\ UNCHANGED otpVars
    /\ UNCHANGED <<resp, sreq, outbox, fnOtps, fn, storage, links, ml>>
    /\ UNCHANGED extVars

\* signOut after firebaseSignOut: setAuthState, then window.location.reload()
\* unless the role was Admin.  The reload drops the listener's pending work.
SoClear ==
    /\ so.pc = "clear"
    /\ authState' = SignedOutState
    /\ loads' = IF ReloadNeeded(so.role) THEN <<>> ELSE loads
    /\ so' = [so EXCEPT !.pc = "done", !.result = "resolved",
                        !.reloaded = ReloadNeeded(so.role)]
    /\ UNCHANGED <<users, companies, provider, call, now, budget, faulty>>
    /\ UNCHANGED otpVars
    /\ UNCHANGED <<resp, sreq, outbox, fnOtps, fn, storage, links, ml>>
    /\ UNCHANGED extVars

\* the database for one session: a link request, a sign-in, a sign-out
AuthInitSession ==
    /\ users \in [Uids -> {NoProfile} \cup
                    {Profile(TRUE, r, "acme") :
                        r \in {"Employe", "Admin", "PDG"}}]
    /\ companies = <<Company("Acme", TRUE, <<"1.2.3.4">>)>>
    /\ AuthStart
    /\ budget = MaxAttempts
    /\ faulty = TRUE

InitSession == AuthInitSession /\ OtpInit /\ EdgeInit

\* a link is requested, then verifyMagicLink is called
NextLink ==
    \/ \E e \in LinkEmails : MlStart(e)
    \/ \E ok \in BOOLEAN : MlQuery(ok)
    \/ \E ok \in BOOLEAN : MlSend(ok)
    \/ /\ ml.pc \in {"idle", "done"}
       /\ \/ \E u \in Uids, ip \in Ips : VmlStart(u, ip)
          \/ VmlInvalidLink
          \/ VmlProviderOk
          \/ \E code \in ProviderErrors : VmlProviderFail(code)
          \/ \E ok \in Outcomes : VmlGetIp(ok)
          \/ \E ok \in Outcomes : VmlGetDoc(ok)
          \/ \E ok \in Outcomes : VmlHistory(ok)
          \/ \E i \in 1..MaxSeqAttempts, ok \in Outcomes : LoadGetDoc(i, ok)
          \/ \E i \in 1..MaxSeqAttempts, ok \in Outcomes : LoadSetDoc(i, ok)

SpecLink == InitSession /\ [][NextLink]_vars

\* a sign-in, then a sign-out
NextSession ==
    \/ so.pc \in {"idle", "done"} /\ Next
    \/ SoStart
    \/ \E ok \in BOOLEAN : SoProvider(ok)
    \/ SoClear

SpecSession == InitSession /\ [][NextSession]_vars

(***************************************************************************)
(* Cloud Functions: sendOtpEmail and sendEmailWithRetry.                   *)
(***************************************************************************)
\* the values of data.email explored; "" stands for a missing one
FnEmails == {"a@b.com", "c@d.com", "", "nobody"}

\* what transporter.sendMail can do: resolve, or reject with an error
SendOutcomes == {"ok", "ECONNECTION", "EAUTH"}

\* index.ts:96-102, the document sendOtpEmail sets at otps/{email}
FnOtpDoc(email, otp, t) ==
    [exists |-> TRUE, code |-> otp, email |-> email, createdAt |-> t,
     expiresAt |-> t + OTP_EXPIRY_MINUTES, attempts |-> 0]

\* sendEmailWithRetry: attempt < maxRetries, the condition of the wait
ShouldWait_always(attempt) == TRUE

ShouldWait(attempt) == attempt < MAX_RETRIES

\* sendOtpEmail up to the return of set(otpData); otp is the code drawn
FnStart(email, otp, ok) ==
    /\ fn.pc \in {"idle", "done"}
    /\ IF ~PassesEmailCheck(email)
       THEN /\ fn' = [IdleFn EXCEPT !.pc = "done", !.email = email,
                                    !.result = "invalid-argument"]
            /\ fnOtps' = fnOtps
            /\ fnCompared' = fnCompared
       ELSE IF ~ok
       THEN /\ fn' = [IdleFn EXCEPT !.pc = "done", !.email = email,
                                    !.otp = otp, !.result = "internal"]
            /\ fnOtps' = fnOtps
            /\ fnCompared' = fnCompared
       ELSE /\ fn' = [IdleFn EXCEPT !.pc = "verify", !.email = email,
                                    !.otp = otp]
            /\ fnOtps' = [fnOtps EXCEPT ![email] = FnOtpDoc(email, otp, srvNow)]
            /\ fnCompared' = [fnCompared EXCEPT ![email] = 0]
    /\ UNCHANGED otpVars
    /\ UNCHANGED authVars
    /\ UNCHANGED <<resp, sreq, outbox, storage, links, ml, so>>
    /\ UNCHANGED <<hc, gen, cc, fv>>

\* sendOtpEmail: verifyTransporter returns; sendEmailWithRetry is entered
FnVerifyTransporter(ok) ==
    /\ fn.pc = "verify"
    /\ fn' = IF ok
             THEN [fn EXCEPT !.pc = "send", !.attempt = 1, !.retry = "running"]
             ELSE [fn EXCEPT !.pc = "done", !.result = "internal"]
    /\ UNCHANGED otpVars
    /\ UNCHANGED authVars
    /\ UNCHANGED <<resp, sreq, outbox, fnOtps, storage, links, ml, so>>
    /\ UNCHANGED extVars

\* sendEmailWithRetry: transporter.sendMail settles for the current attempt.
\* On success the function returns and sendOtpEmail returns {success: true};
\* on a failure it starts the timer, or, after the last attempt, leaves the
\* loop and throws lastError, which sendOtpEmail turns into 'internal'.
SendAttempt(outcome) ==
    /\ fn.pc = "send"
    /\ LET f == [fn EXCEPT !.sends = @ + 1,
                           !.outcomes = Append(@, outcome)]
       IN  fn' = IF outcome = "ok"
                 THEN [f EXCEPT !.pc = "done", !.retry = "returned",
                                !.result = "success"]
                 ELSE IF ShouldWait(fn.attempt)
                 THEN [f EXCEPT !.pc = "wait"]
                 ELSE IF fn.attempt + 1 <= MAX_RETRIES
                 THEN [f EXCEPT !.attempt = @ + 1]
                 ELSE [f EXCEPT !.pc = "done", !.retry = "thrown",
                                !.thrown = outcome, !.result = "internal"]
    /\ UNCHANGED otpVars
    /\ UNCHANGED authVars
    /\ UNCHANGED <<resp, sreq, outbox, fnOtps, storage, links, ml, so>>
    /\ UNCHANGED extVars

\* sendEmailWithRetry: the timer of 2000 ms fires; the loop increments attempt
\* and tests attempt <= maxRetries
RetryWait ==
    /\ fn.pc = "wait"
    /\ fn' = IF fn.attempt + 1 <= MAX_RETRIES
             THEN [fn EXCEPT !.pc = "send", !.attempt = @ + 1,
                             !.slept = @ + RETRY_DELAY_MS]
             ELSE [fn EXCEPT !.pc = "done", !.retry = "thrown",
                             !.slept = @ + RETRY_DELAY_MS,
                             !.thrown = fn.outcomes[Len(fn.outcomes)],
                             !.result = "internal"]
    /\ UNCHANGED otpVars
    /\ UNCHANGED authVars
    /\ UNCHANGED <<resp, sreq, outbox, fnOtps, storage, links, ml, so>>
    /\ UNCHANGED extVars

InitFn == OtpInit /\ AuthUnused /\ EdgeInit

NextFn ==
    \/ \E e \in FnEmails, c \in Codes, ok \in BOOLEAN : FnStart(e, c, ok)
    \/ \E ok \in BOOLEAN : FnVerifyTransporter(ok)
    \/ \E o \in SendOutcomes : SendAttempt(o)
    \/ RetryWait

\* sendMail settles and the timer fires
SpecFn ==
    /\ InitFn
    /\ [][NextFn]_vars
    /\ WF_vars(\E o \in SendOutcomes : SendAttempt(o))
    /\ WF_vars(RetryWait)

(***************************************************************************)
(* signIn called in two browsers for the same account.  Each browser has   *)
(* its own AuthProvider and provider session; they share the document of   *)
(* the account in 'users'.  The steps are the returns of the Firestore     *)
(* calls of signIn for a profile that exists.                              *)
(***************************************************************************)

\* signIn in browser b: firebaseSignIn and getIpAddress have returned, and
\* getDoc(userRef) returns the profile; for a role other than Employee
\* validateIpRestrictions returns at once and the timestamp is taken
BrowserGetDoc(b, u, ip) ==
    /\ hc[b].pc \in {"idle", "done"}
    /\ budget > 0
    /\ users[u].exists
    /\ hc' = [hc EXCEPT ![b] =
                [pc |-> IF IsEmployeeRole(users[u].role) THEN "companies"
                        ELSE "history",
                 uid |-> u, ip |-> ip, userData |-> users[u], ts |-> now,
                 result |-> "pending"]]
    /\ budget' = budget - 1
    /\ UNCHANGED <<users, companies, provider, authState, loads, call, now,
                   faulty>>
    /\ UNCHANGED otpVars
    /\ UNCHANGED edgeVars
    /\ UNCHANGED <<gen, cc, fv, fnCompared>>

\* validateIpRestrictions in browser b: getDocs(companiesRef) returns
BrowserCompanies(b) ==
    /\ hc[b].pc = "companies"
    /\ LET i == FindCompany(companies, hc[b].userData.company)
           denied == i # 0 /\ IpDenied(companies[i], hc[b].ip)
       IN  hc' = [hc EXCEPT ![b].pc = IF denied /\ hc[b].userData.hasId
                                      THEN "logFailed" ELSE "history",
                            ![b].ts = now]
    /\ UNCHANGED authVars
    /\ UNCHANGED otpVars
    /\ UNCHANGED edgeVars
    /\ UNCHANGED <<gen, cc, fv, fnCompared>>

\* validateIpRestrictions in browser b: updateDoc with the 'failed' entry
\* returns; the sign-in is rejected
BrowserLogFailed(b) ==
    /\ hc[b].pc = "logFailed"
    /\ LET i == FindCompany(companies, hc[b].userData.company)
       IN  users' = [users EXCEPT ![hc[b].uid].loginHistory =
                        ArrayUnion(@, FailedEntry(hc[b].ts, hc[b].ip,
                            AccessDenied(hc[b].ip, companies[i].allowedIps)))]
    /\ hc' = [hc EXCEPT ![b].pc = "done", ![b].result = "rejected"]
    /\ UNCHANGED <<companies, provider, authState, loads, call, now, budget,
                   faulty>>
    /\ UNCHANGED otpVars
    /\ UNCHANGED edgeVars
    /\ UNCHANGED <<gen, cc, fv, fnCompared>>

\* updateLoginHistory in browser b: updateDoc returns; the count was computed
\* from the profile this browser read
BrowserHistory(b) ==
    /\ hc[b].pc = "history"
    /\ users' = [users EXCEPT ![hc[b].uid] =
                    HistoryUpdate(@, hc[b].userData, hc[b].ip, hc[b].ts)]
    /\ hc' = [hc EXCEPT ![b].pc = "done", ![b].result = "accepted"]
    /\ UNCHANGED <<companies, provider, authState, loads, call, now, budget,
                   faulty>>
    /\ UNCHANGED otpVars
    /\ UNCHANGED edgeVars
    /\ UNCHANGED <<gen, cc, fv, fnCompared>>

\* a day passes; the clocks of the browsers agree
BrowserClock ==
    /\ now < MaxTime
    /\ now' = now + 1
    /\ UNCHANGED <<users, companies, provider, authState, loads, call,
                   budget, faulty>>
    /\ UNCHANGED otpVars
    /\ UNCHANGED edgeVars
    /\ UNCHANGED extVars

NextConc ==
    \/ \E b \in Callers, u \in Uids, ip \in Ips : BrowserGetDoc(b, u, ip)
    \/ \E b \in Callers : BrowserCompanies(b)
    \/ \E b \in Callers : BrowserLogFailed(b)
    \/ \E b \in Callers : BrowserHistory(b)
    \/ BrowserClock

SpecConc == InitSeq /\ [][NextConc]_vars

(***************************************************************************)
(* generateOTP (lib/otp.ts, lib/mailtrap.ts, and inline in sendOtpEmail).  *)
(***************************************************************************)
\* Math.random() returns k / RandomGrain for one of these k: a number in
\* [0, 1)
RandomDraws == 0..(RandomGrain - 1)

\* Math.floor(100000 + Math.random() * 900000)
OtpNumber_noOffset(k) == (k * 900000) \div RandomGrain

OtpNumber(k) == 100000 + (k * 900000) \div RandomGrain

\* Number.prototype.toString on a non-negative integer: its decimal digits,
\* the most significant first, without leading zeros
RECURSIVE NumberToString(_)
NumberToString(n) ==
    IF n < 10 THEN <<n>> ELSE Append(NumberToString(n \div 10), n % 10)

\* the string generateOTP returns for the draw k
GenerateOTP(k) == NumberToString(OtpNumber(k))

\* a call of generateOTP; the store it runs beside is recorded
GenerateOTPCall(k) ==
    /\ gen' = [drawn |-> TRUE, random |-> k, otp |-> GenerateOTP(k),
               stored |-> Cardinality(otps)]
    /\ UNCHANGED otpVars
    /\ UNCHANGED authVars
    /\ UNCHANGED edgeVars
    /\ UNCHANGED <<hc, cc, fv, fnCompared>>

NextGen ==
    \/ \E k \in RandomDraws : GenerateOTPCall(k)
    \/ \E e \in Emails, c \in Codes : StoreOTP(e, c)

SpecGen == InitOtp /\ [][NextGen]_vars

(***************************************************************************)
(* Company management service: createCompany and updateCompany.            *)
(***************************************************************************)
\* the strings offered as IP addresses
IpTexts ==
    {"1.2.3.4", "9.9.9.9", "01.2.3.4", "256.1.1.1", "unknown",
     "2001:db8:0:0:0:0:0:1", "::1"}

\* the characters of a string
Chars(text) ==
    CASE text = "1.2.3.4" ->
            <<"1", ".", "2", ".", "3", ".", "4">>
      [] text = "9.9.9.9" ->
            <<"9", ".", "9", ".", "9", ".", "9">>
      [] text = "01.2.3.4" ->
            <<"0", "1", ".", "2", ".", "3", ".", "4">>
      [] text = "256.1.1.1" ->
            <<"2", "5", "6", ".", "1", ".", "1", ".", "1">>
      [] text = "unknown" ->
            <<"u", "n", "k", "n", "o", "w", "n">>
      [] text = "2001:db8:0:0:0:0:0:1" ->
            <<"2", "0", "0", "1", ":", "d", "b", "8", ":", "0", ":", "0", ":", "0", ":", "0", ":", "0", ":", "1">>
      [] text = "::1" ->
            <<":", ":", "1">>
      [] text = "123456" ->
            <<"1", "2", "3", "4", "5", "6">>
      [] text = "654321" ->
            <<"6", "5", "4", "3", "2", "1">>
      [] text = "12345" ->
            <<"1", "2", "3", "4", "5">>
      [] text = "12345a" ->
            <<"1", "2", "3", "4", "5", "a">>
      [] OTHER -> <<>>

DigitChars == {"0", "1", "2", "3", "4", "5", "6", "7", "8", "9"}
HexChars == DigitChars \cup {"a", "b", "c", "d", "e", "f",
                             "A", "B", "C", "D", "E", "F"}

\* String.prototype.split on a separator of one character
RECURSIVE SplitAt(_, _)
SplitAt(chars, sep) ==
    IF chars = <<>> THEN << <<>> >>
    ELSE LET rest == SplitAt(Tail(chars), sep)
         IN  IF Head(chars) = sep THEN << <<>> >> \o rest
             ELSE << <<Head(chars)>> \o Head(rest) >> \o Tail(rest)

\* isValidIpAddress: 25[0-5]|2[0-4][0-9]|[01]?[0-9][0-9]?
OctetMatches(tok) ==
    \/ /\ Len(tok) = 3 /\ tok[1] = "2" /\ tok[2] = "5"
       /\ tok[3] \in {"0", "1", "2", "3", "4", "5"}
    \/ /\ Len(tok) = 3 /\ tok[1] = "2"
       /\ tok[2] \in {"0", "1", "2", "3", "4"} /\ tok[3] \in DigitChars
    \/ /\ Len(tok) = 3 /\ tok[1] \in {"0", "1"}
       /\ tok[2] \in DigitChars /\ tok[3] \in DigitChars
    \/ /\ Len(tok) \in {1, 2}
       /\ \A i \in DOMAIN tok : tok[i] \in DigitChars

\* isValidIpAddress: ipv4Regex.test(ip)
Ipv4Matches(chars) ==
    LET toks == SplitAt(chars, ".")
    IN  Len(toks) = 4 /\ \A i \in DOMAIN toks : OctetMatches(toks[i])

\* isValidIpAddress: ipv6Regex.test(ip)
Ipv6Matches(chars) ==
    LET toks == SplitAt(chars, ":")
    IN  /\ Len(toks) = 8
        /\ \A i \in DOMAIN toks :
              /\ Len(toks[i]) \in 1..4
              /\ \A j \in DOMAIN toks[i] : toks[i][j] \in HexChars

\* isValidIpAddress(ip)
IsValidIpAddress(text) ==
    Ipv4Matches(Chars(text)) \/ Ipv6Matches(Chars(text))

\* the strings offered that isValidIpAddress accepts
AcceptedIpTexts == {text \in IpTexts : IsValidIpAddress(text)}

\* allowedIps.length > MAX_ALLOWED_IPS
TooManyIps_never(list) == FALSE

TooManyIps(list) == Len(list) > MAX_ALLOWED_IPS

\* the validation of allowedIps in createCompany and updateCompany: the
\* message of the error thrown, "none" when the list passes or is not given
IpListError(ips) ==
    IF ~ips.given THEN "none"
    ELSE IF TooManyIps(ips.list) THEN "Maximum of 3 IP addresses allowed"
    ELSE IF \E i \in DOMAIN ips.list : ips.list[i] \notin AcceptedIpTexts
    THEN "Invalid IP address format"
    ELSE "none"

\* String.prototype.trim on the names that occur
Trim(str) == IF str = " " THEN "" ELSE str

\* the arguments explored: names (" " is blank; "" is no name, for
\* updateCompany), and lists of addresses (given: the field allowedIps is
\* present)
CompanyInputNames == {"Acme", "Ghost", " "}
NotGiven == [given |-> FALSE, list |-> <<>>]
Given(list) == [given |-> TRUE, list |-> list]
IpListInputs ==
    {NotGiven, Given(<<>>)}
    \cup {Given(<<a>>) : a \in IpTexts}
    \cup {Given(<<"1.2.3.4", "9.9.9.9", "01.2.3.4">>),
          Given(<<"1.2.3.4", "unknown", "9.9.9.9">>),
          Given(<<"1.2.3.4", "9.9.9.9", "01.2.3.4",
                  "2001:db8:0:0:0:0:0:1">>),
          Given(<<"1.2.3.4", "1.2.3.4", "1.2.3.4", "256.1.1.1">>)}

\* what the network calls of one invocation do: all succeed, or a call
\* after the write of the company (logo upload, group update) fails
CompanyOutcomes == {"ok", "laterFails"}

\* the call with the list it was given and its result
CompanyCall(op, id, ips, result) ==
    [op |-> op, id |-> id, ips |-> ips, result |-> result]

\* createCompany(companyData, logo): the documents are numbered in the order
\* of their creation
CreateCompany(name, ips, outcome) ==
    /\ LET error ==
             IF Trim(name) = "" THEN "Company name is required"
             ELSE IF IpListError(ips) # "none" THEN IpListError(ips)
             ELSE IF FindCompany(companies, name) # 0 THEN "already exists"
             ELSE IF outcome = "laterFails" THEN "upload failed"
             ELSE "none"
           written == error \in {"none", "upload failed"}
       IN  /\ companies' =
                IF written
                THEN Append(companies, Company(name, TRUE, ips.list))
                ELSE companies
           /\ cc' = CompanyCall("create", IF written THEN Len(companies) + 1
                                          ELSE 0,
                                ips,
                                IF error = "none" THEN "ok" ELSE "failed")
    /\ UNCHANGED <<users, provider, authState, loads, call, now, budget,
                   faulty>>
    /\ UNCHANGED otpVars
    /\ UNCHANGED edgeVars
    /\ UNCHANGED <<hc, gen, fv, fnCompared>>

\* updateDoc(companyRef, {...updateData}): the fields given replace the
\* stored ones
Updated(doc, name, ips) ==
    [doc EXCEPT !.name = IF name = "" THEN @ ELSE name,
                !.hasIps = IF ips.given THEN TRUE ELSE @,
                !.allowedIps = IF ips.given THEN ips.list ELSE @]

\* updateCompany(id, data)
UpdateCompany(id, name, ips, outcome) ==
    /\ LET error ==
             IF id \notin DOMAIN companies THEN "not found"
             ELSE IF IpListError(ips) # "none" THEN IpListError(ips)
             ELSE IF /\ name # "" /\ name # companies[id].name
                     /\ FindCompany(companies, name) \notin {0, id}
                  THEN "already exists"
             ELSE IF outcome = "laterFails" THEN "group update failed"
             ELSE "none"
           written == error \in {"none", "group update failed"}
       IN  /\ companies' =
                IF written
                THEN [companies EXCEPT ![id] = Updated(@, name, ips)]
                ELSE companies
           /\ cc' = CompanyCall("update", id, ips,
                                IF error = "none" THEN "ok" ELSE "failed")
    /\ UNCHANGED <<users, provider, authState, loads, call, now, budget,
                   faulty>>
    /\ UNCHANGED otpVars
    /\ UNCHANGED edgeVars
    /\ UNCHANGED <<hc, gen, fv, fnCompared>>

NextCompany ==
    \/ \E n \in CompanyInputNames, ips \in IpListInputs,
          o \in CompanyOutcomes : CreateCompany(n, ips, o)
    \/ \E id \in 1..3, n \in {"", "ACME", "Ghost"},
          ips \in IpListInputs, o \in CompanyOutcomes :
          UpdateCompany(id, n, ips, o)

SpecCompany == InitOtp /\ [][NextCompany]_vars

(***************************************************************************)
(* Cloud Functions: verifyOtp.  The calls are made one after another; the  *)
(* writes of the function to Firestore succeed.  fv is the last call;      *)
(* fnCompared[e] counts the guesses compared with the code that otps/{e}   *)
(* holds since sendOtpEmail last set it.                                   *)
(***************************************************************************)
\* the values of data.email explored for verifyOtp and for the sendOtpEmail
\* calls that precede it
FnOtpEmails == {"a@b.com", "nobody"}

\* the values of data.otp explored; "" stands for a missing one
FnGuesses == Codes \cup {"", "12345", "12345a"}

\* what the reads and the auth calls of verifyOtp can do
FnVerifyOutcomes == {"ok", "readFails", "authFails"}

\* index.ts:162, otp && otp.length === 6 && /^\d{6}$/.test(otp)
OtpFormatOk(otp) ==
    /\ otp # ""
    /\ Len(Chars(otp)) = 6
    /\ \A i \in 1..Len(Chars(otp)) : Chars(otp)[i] \in DigitChars

\* index.ts:187, new Date(otpData.expiresAt) < now
FnExpired(expiresAt, t) == expiresAt < t

\* index.ts:196, otpData.attempts >= 3
AttemptsExhausted_above(attempts) == attempts > 3

AttemptsExhausted(attempts) == attempts >= 3

\* the call of verifyOtp that has returned
FnVerifyCall(email, otp, read, compared, token, thrown, result) ==
    [pc |-> "done", seq |-> 1 - fv.seq, email |-> email, otp |-> otp,
     read |-> read, compared |-> compared, token |-> token,
     thrown |-> thrown, result |-> result]

\* verifyOtp, one call from the validation to the return or the throw; every
\* error thrown inside the try block reaches the client as 'internal'
FnVerifyOtp(email, otp, outcome) ==
    /\ IF ~PassesEmailCheck(email)
       THEN /\ fv' = FnVerifyCall(email, otp, FALSE, FALSE, FALSE,
                                  "Invalid email address", "invalid-argument")
            /\ UNCHANGED <<fnOtps, fnCompared>>
       ELSE IF ~OtpFormatOk(otp)
       THEN /\ fv' = FnVerifyCall(email, otp, FALSE, FALSE, FALSE,
                                  "Invalid OTP format", "invalid-argument")
            /\ UNCHANGED <<fnOtps, fnCompared>>
       ELSE IF outcome = "readFails"
       THEN /\ fv' = FnVerifyCall(email, otp, FALSE, FALSE, FALSE,
                                  "get rejected", "internal")
            /\ UNCHANGED <<fnOtps, fnCompared>>
       ELSE IF ~fnOtps[email].exists
       THEN /\ fv' = FnVerifyCall(email, otp, TRUE, FALSE, FALSE,
                                  "OTP not found or expired", "internal")
            /\ UNCHANGED <<fnOtps, fnCompared>>
       ELSE IF FnExpired(fnOtps[email].expiresAt, srvNow)
       THEN /\ fv' = FnVerifyCall(email, otp, TRUE, FALSE, FALSE,
                                  "OTP expired", "internal")
            /\ fnOtps' = [fnOtps EXCEPT ![email] = NoFnDoc]
            /\ fnCompared' = fnCompared
       ELSE IF AttemptsExhausted(fnOtps[email].attempts)
       THEN /\ fv' = FnVerifyCall(email, otp, TRUE, FALSE, FALSE,
                                  "Too many attempts", "internal")
            /\ fnOtps' = [fnOtps EXCEPT ![email] = NoFnDoc]
            /\ fnCompared' = fnCompared
       ELSE IF fnOtps[email].code # otp
       THEN /\ fv' = FnVerifyCall(email, otp, TRUE, TRUE, FALSE,
                                  "Invalid OTP", "internal")
            /\ fnOtps' = [fnOtps EXCEPT ![email].attempts = @ + 1]
            /\ fnCompared' = [fnCompared EXCEPT ![email] = @ + 1]
       ELSE /\ fv' = IF outcome = "authFails"
                     THEN FnVerifyCall(email, otp, TRUE, TRUE, FALSE,
                                       "auth rejected", "internal")
                     ELSE FnVerifyCall(email, otp, TRUE, TRUE, TRUE,
                                       "none", "customToken")
            /\ fnOtps' = [fnOtps EXCEPT ![email] = NoFnDoc]
            /\ fnCompared' = [fnCompared EXCEPT ![email] = @ + 1]
    /\ UNCHANGED otpVars
    /\ UNCHANGED authVars
    /\ UNCHANGED <<resp, sreq, outbox, fn, storage, links, ml, so>>
    /\ UNCHANGED <<hc, gen, cc>>

\* sendOtpEmail whose mail is accepted at the first attempt, verifyOtp and
\* the clock
NextFnOtp ==
    \/ \E e \in FnOtpEmails, c \in Codes, ok \in BOOLEAN : FnStart(e, c, ok)
    \/ \E ok \in BOOLEAN : FnVerifyTransporter(ok)
    \/ SendAttempt("ok")
    \/ \E e \in FnOtpEmails, g \in FnGuesses, o \in FnVerifyOutcomes :
          FnVerifyOtp(e, g, o)
    \/ \E d \in 1..MaxSrvTime : AdvanceSrvClock(d)

SpecFnOtp == InitFn /\ [][NextFnOtp]_vars

(***************************************************************************)
(* Properties of the OTP store.                                            *)
(***************************************************************************)

\* C4, as stated: for every (email, code) pair stored by storeOTP, sequential
\* verifyOTP calls before expiry return true exactly once: the first call
\* returns true and every call after a true result signals NotFound.
C4_SingleUsePerPair ==
    vlast.pc = "done" =>
        /\ vlast.priorValid => vlast.signal = "NotFound"
        /\ ( /\ ~vlast.priorValid
             /\ IssuedFor(vlast.email, vlast.otp) # {}
             /\ \A d \in IssuedFor(vlast.email, vlast.otp) :
                    vlast.at <= d.expiryTime )
           => vlast.result

\* C4, amended: the same for every pair that storeOTP has stored exactly once;
\* the one document of such a pair makes verifyOTP return true at most once.
C4_SingleUsePerRecord ==
    (vlast.pc = "done" /\ Cardinality(IssuedFor(vlast.email, vlast.otp)) = 1) =>
        /\ vlast.priorValid => vlast.signal = "NotFound"
        /\ ( /\ ~vlast.priorValid
             /\ \A d \in IssuedFor(vlast.email, vlast.otp) :
                    vlast.at <= d.expiryTime )
           => vlast.result
        /\ \A d \in IssuedFor(vlast.email, vlast.otp) : validCount[d.id] <= 1

\* C4 witness: a second verifyOTP of a pair stored once, after the first one
\* returned true, signals NotFound.
C4_Witness ==
    /\ vlast.pc = "done"
    /\ Cardinality(IssuedFor(vlast.email, vlast.otp)) = 1
    /\ vlast.priorValid
    /\ vlast.signal = "NotFound"

\* C5, as stated: whatever the interleaving of concurrent verifyOTP calls, one
\* stored document makes at most one of them return true.
C5_NoConcurrentReplay ==
    \A i \in DocIds : validCount[i] <= 1

\* C6: a verifyOTP call that reads the clock strictly later than the issue time
\* of the matched document plus 5 minutes returns false, signals Expired and
\* deletes the document; a call at or before that instant is not treated as
\* expired.
C6_Expiry ==
    (vlast.pc = "done" /\ vlast.doc # NoOtpDoc) =>
        /\ vlast.at > vlast.doc.createdAt + OTP_EXPIRY_MINUTES
              => /\ ~vlast.result
                 /\ vlast.signal = "Expired"
                 /\ \A d \in otps : d.id # vlast.doc.id
        /\ vlast.at <= vlast.doc.createdAt + OTP_EXPIRY_MINUTES
              => vlast.signal # "Expired"

\* C6 witness: a call found its document expired.
C6_Witness ==
    /\ vlast.pc = "done"
    /\ vlast.signal = "Expired"
    /\ vlast.at > vlast.doc.createdAt + OTP_EXPIRY_MINUTES

\* C7, as stated: in every store state, right after storeOTP(email, c),
\* verifyOTP(email, c) returns true and verifyOTP(email, d), d # c, signals
\* NotFound.
C7_RoundTripAnyStore ==
    (vlast.pc = "done" /\ vlast.afterStore.set
        /\ vlast.afterStore.email = vlast.email) =>
        IF vlast.otp = vlast.afterStore.otp
        THEN vlast.result
        ELSE vlast.signal = "NotFound"

\* C7, amended: the same in every store state that held no other document for
\* that email when storeOTP ran.
C7_RoundTripAlone ==
    (vlast.pc = "done" /\ vlast.afterStore.set
        /\ vlast.afterStore.email = vlast.email
        /\ vlast.afterStore.alone) =>
        IF vlast.otp = vlast.afterStore.otp
        THEN vlast.result
        ELSE vlast.signal = "NotFound"

\* C7 witness: storeOTP on a store without documents for the email, then
\* verifyOTP with the exact code returns true.
C7_Witness ==
    /\ vlast.pc = "done"
    /\ vlast.afterStore.set
    /\ vlast.afterStore.alone
    /\ vlast.afterStore.email = vlast.email
    /\ vlast.afterStore.otp = vlast.otp
    /\ vlast.result

(***************************************************************************)
(* Properties of the authentication manager.                               *)
(***************************************************************************)

\* the role lower-cases to the Employee class
EmployeeClass(role) == role \in {"Employe", "EMPLOYE"}

\* the allow-list of the company record matched by case-insensitive name;
\* empty when no record matches or the record has no allowedIps
AllowListOf(name) ==
    LET i == FindCompany(companies, name)
    IN  IF i = 0 THEN <<>>
        ELSE IF companies[i].hasIps THEN companies[i].allowedIps
        ELSE <<>>

\* the finished call is a signIn that read the profile of an Employee whose
\* company has a non-empty allow-list
EmployeeSignInDone ==
    /\ call.pc = "done"
    /\ call.kind = "signIn"
    /\ call.userData.exists
    /\ EmployeeClass(call.userData.role)
    /\ AllowListOf(call.userData.company) # <<>>

\* C1, as stated: a signIn of an Employee from an address outside the company's
\* non-empty allow-list is rejected: a 'failed' entry whose reason names the
\* address is appended to the profile, no 'success' entry is appended,
\* lastLogin, lastLoginIp and loginCount7Days keep their values, and the
\* provider session is signed out.
C1_DeniedIpRejected ==
    (EmployeeSignInDone
        /\ call.clientIp \notin Range(AllowListOf(call.userData.company))) =>
        /\ \E i \in DOMAIN users[call.uid].loginHistory :
              /\ users[call.uid].loginHistory[i].status = "failed"
              /\ users[call.uid].loginHistory[i].ipAddress = call.clientIp
              /\ users[call.uid].loginHistory[i].reason.kind = "AccesRefuse"
              /\ users[call.uid].loginHistory[i].reason.ip = call.clientIp
        /\ \A i \in DOMAIN users[call.uid].loginHistory :
              users[call.uid].loginHistory[i].status # "success"
        /\ users[call.uid].lastLogin = call.userData.lastLogin
        /\ users[call.uid].lastLoginIp = call.userData.lastLoginIp
        /\ users[call.uid].loginCount7Days = call.userData.loginCount7Days
        /\ provider.currentUser = "none"

\* C2, as stated: when validateIpRestrictions rejects, the signIn call itself
\* rejects; after any other failure of the Firestore block it resolves.
C2_RejectionIsFatal ==
    (call.pc = "done" /\ call.kind = "signIn") =>
        /\ call.denied => call.result = "rejected"
        /\ (~call.denied /\ call.failed) => call.result = "resolved"

\* C3, as stated: no Employee whose company has a non-empty allow-list is
\* authenticated (provider session established, user in the React state) from
\* an address outside the list, once the call and the listener have finished.
C3_EmployeesRestricted ==
    \A u \in Uids :
        ( /\ call.pc = "done" /\ loads = <<>>
          /\ provider.currentUser = u
          /\ authState.user.exists
          /\ users[u].exists
          /\ EmployeeClass(users[u].role)
          /\ AllowListOf(users[u].company) # <<>> )
        => provider.ip \in Range(AllowListOf(users[u].company))

\* C8: a signIn of an Employee from an address in the company's allow-list is
\* accepted: the call resolves, the provider session stays established,
\* exactly one entry, with status 'success' and that address, is appended to
\* loginHistory, and lastLoginIp becomes that address.
C8_AllowedIpAccepted ==
    (EmployeeSignInDone
        /\ call.clientIp \in Range(AllowListOf(call.userData.company))) =>
        /\ call.result = "resolved"
        /\ ~call.denied
        /\ provider.currentUser = call.uid
        /\ users[call.uid].loginHistory =
              Append(call.userData.loginHistory,
                     [timestamp |-> call.ts, ipAddress |-> call.clientIp,
                      status |-> "success", reason |-> NoReason])
        /\ users[call.uid].lastLoginIp = call.clientIp

\* C8 witness: such a sign-in has finished.
C8_Witness ==
    /\ EmployeeSignInDone
    /\ call.clientIp \in Range(AllowListOf(call.userData.company))
    /\ users[call.uid].lastLoginIp = call.clientIp
    /\ Len(users[call.uid].loginHistory) = 1

\* the profile read by signIn is outside the reach of the allow-list check
ExemptFromIpCheck ==
    /\ call.kind = "signIn"
    /\ call.userData.exists
    /\ \/ call.userData.role \in {"Admin", "PDG", "Dirigeant"}
       \/ \A i \in DOMAIN companies :
             ToLower(companies[i].name) # ToLower(call.userData.company)
       \/ AllowListOf(call.userData.company) = <<>>

\* C9: a signIn is never rejected on IP grounds when the role is Admin, Owner
\* (PDG) or Executive (Dirigeant), when no company record matches, or when the
\* matched company's allowedIps is empty or absent, whatever the address: no
\* 'failed' entry is written, no sign-out is forced, and the call ends
\* resolved with the session established.
C9_OnlyEmployeesWithList ==
    ExemptFromIpCheck =>
        /\ ~call.denied
        /\ call.pc \notin {"logFailed", "signOut"}
        /\ \A i \in DOMAIN users[call.uid].loginHistory :
              users[call.uid].loginHistory[i].status # "failed"
        /\ call.pc = "done" =>
              /\ call.result = "resolved"
              /\ provider.currentUser = call.uid

\* C9 witness: an Admin whose company has a non-empty allow-list has signed in
\* from an address outside of it.
C9_Witness ==
    /\ ExemptFromIpCheck
    /\ call.pc = "done"
    /\ call.userData.role = "Admin"
    /\ AllowListOf(call.userData.company) # <<>>
    /\ call.clientIp \notin Range(AllowListOf(call.userData.company))
    /\ provider.currentUser = call.uid

\* C10, as stated: after an accepted sign-in, the persisted loginCount7Days is
\* the number of successful sign-ins of the last 7 days, the current one
\* included; older entries are not counted.
C10_RollingCount ==
    ( /\ call.pc = "done"
      /\ call.result = "resolved"
      /\ ~call.denied
      /\ call.userData.exists )
    => users[call.uid].loginCount7Days =
          Cardinality({i \in DOMAIN users[call.uid].loginHistory :
              /\ users[call.uid].loginHistory[i].status = "success"
              /\ users[call.uid].loginHistory[i].timestamp
                    > call.ts - SEVEN_DAYS})

(***************************************************************************)
(* Properties of the API routes.                                           *)
(***************************************************************************)

\* a profile exists for the email
ProfileExistsFor(email) ==
    \/ \E u \in Uids : EmailOf(u) = email /\ users[u].exists
    \/ email = "c@d.com"

\* C11: the verify-otp route sets the 'session' cookie (signed token, 7-day
\* expiry, http-only, SameSite strict) and returns 200 if and only if
\* verifyOTP returned Valid for the request's (email, otp) in that request; a
\* missing email or otp gives 400 without any access to the store; an invalid
\* or expired code gives 400 and no cookie; neither the existence of a profile
\* for the email nor the caller's address changes the outcome.
C11_CookieIffValid ==
    resp.route = "verify-otp" =>
        /\ resp.status = 200 <=> resp.cookie.set
        /\ resp.cookie.set <=> (resp.accessed /\ resp.verdict = "Valid")
        /\ resp.cookie.set =>
              /\ resp.cookie.name = "session"
              /\ resp.cookie.signed
              /\ resp.cookie.email = resp.email
              /\ resp.cookie.expiresIn = "7d"
              /\ resp.cookie.maxAge = 7 * 24 * 60 * 60
              /\ resp.cookie.httpOnly
              /\ resp.cookie.sameSite = "strict"
        /\ (Missing(resp.email) \/ Missing(resp.otp)) =>
              resp.status = 400 /\ ~resp.accessed
        /\ resp.verdict \in {"NotFound", "Expired"} => resp.status = 400
        /\ vlast.pc = "done" =>
              /\ resp.accessed
              /\ vlast.email = resp.email /\ vlast.otp = resp.otp
              /\ resp.verdict = vlast.signal
              /\ resp.cookie.set <=> vlast.result

\* C11 witness: a 200 with the cookie for an email that has no profile, from
\* an address outside the only allow-list.
C11_Witness ==
    /\ resp.route = "verify-otp"
    /\ resp.status = 200 /\ resp.cookie.set
    /\ vlast.pc = "done" /\ vlast.result
    /\ ~ProfileExistsFor(resp.email)
    /\ resp.ip = "9.9.9.9"

\* C12: the send-otp route answers a request without email with 400 and
\* neither stores a code nor sends mail; otherwise the code is stored, then
\* mailed; 200 is returned only if both the store and the mail send
\* succeeded, and a failure of either returns 500.
C12_SendOtpContract ==
    /\ sreq.pc = "mail" =>
          /\ \E d \in issued : d.email = sreq.email /\ d.otp = sreq.otp
          /\ Cardinality(issued) = sreq.issuedBefore + 1
          /\ Len(outbox) = sreq.outboxBefore
    /\ resp.route = "send-otp" =>
          /\ Missing(resp.email) =>
                /\ resp.status = 400
                /\ Cardinality(issued) = resp.issuedBefore
                /\ Len(outbox) = resp.outboxBefore
          /\ resp.status = 200 =>
                /\ Cardinality(issued) = resp.issuedBefore + 1
                /\ \E d \in issued : d.email = resp.email /\ d.otp = resp.otp
                /\ Len(outbox) = resp.outboxBefore + 1
                /\ outbox[Len(outbox)] = [to |-> resp.email, otp |-> resp.otp]
          /\ (~Missing(resp.email)
                /\ \/ Cardinality(issued) = resp.issuedBefore
                   \/ Len(outbox) = resp.outboxBefore) => resp.status = 500
          /\ Len(outbox) > resp.outboxBefore =>
                Cardinality(issued) > resp.issuedBefore

\* C12 witness: a code was stored and the mail send failed: 500.
C12_Witness ==
    /\ resp.route = "send-otp"
    /\ resp.status = 500
    /\ Cardinality(issued) = resp.issuedBefore + 1
    /\ Len(outbox) = resp.outboxBefore

(***************************************************************************)
(* Properties of sendMagicLink and signOut.                                *)
(***************************************************************************)

\* the email is a well-formed address
SyntacticallyValid(email) == email \in {"a@b.com", "c@d.com"}

\* the email is not empty and contains an '@'
NonEmptyWithAt(email) == email \in {"a@b.com", "c@d.com", "x@"}

C15_SignOutOrdering ==
    [][ /\ (so.pc = "provider" /\ so'.pc = "clear") =>
              /\ provider'.currentUser = "none"
              /\ ~so'.reloaded /\ so'.result = "pending"
        /\ (so.pc = "clear" /\ so'.pc = "done") =>
              /\ provider.currentUser = "none"
              /\ ~authState'.user.exists /\ authState'.error = NoError
              /\ so'.result = "resolved"
              /\ so'.reloaded <=> so.role # "Admin"
        /\ (so.pc = "provider" /\ so'.pc = "done") =>
              /\ so'.result = "rejected"
              /\ provider' = provider
              /\ authState'.user = authState.user
              /\ authState'.error # NoError
              /\ ~so'.reloaded
        /\ (so.pc # "done" /\ so'.pc = "done") =>
              so.pc \in {"provider", "clear"}
        /\ (so.pc # "clear" /\ so'.pc = "clear") => so.pc = "provider"
      ]_vars

\* C15 witness: an Admin has signed out: session invalidated, no reload.
C15_Witness ==
    /\ so.pc = "done" /\ so.result = "resolved"
    /\ so.role = "Admin" /\ ~so.reloaded
    /\ provider.currentUser = "none"
    /\ ~authState.user.exists

(***************************************************************************)
(* Properties of sign-in: profile creation, logging, failures.             *)
(***************************************************************************)

\* C14, as stated: when the provider accepts a magic link for a uid that has
\* no profile, verifyMagicLink fails and no profile is created for that uid
\* by this sign-in, whatever the interleaving with the auth-state listener.
C14_MagicLinkCreatesNoProfile ==
    ( /\ call.kind = "vml"
      /\ call.uid \in Uids
      /\ provider.currentUser = call.uid
      /\ ~call.hadProfile ) =>
        /\ ~users[call.uid].exists
        /\ call.pc = "done" => call.result = "rejected"

\* the finished attempt was made for a user whose profile existed
AttemptOnExistingUser ==
    /\ call.pc = "done"
    /\ call.kind \in {"signIn", "vml"}
    /\ call.uid \in Uids
    /\ call.hadProfile

\* C17, as stated: every signIn or verifyMagicLink attempt for an existing
\* user, successful or failed (a provider rejection and an IP-policy
\* rejection included), appends exactly one loginHistory entry with the
\* caller's address and the matching status.
C17_EveryAttemptLogged ==
    AttemptOnExistingUser =>
        /\ Len(users[call.uid].loginHistory) = 1
        /\ users[call.uid].loginHistory[1].ipAddress = call.clientIp
        /\ users[call.uid].loginHistory[1].status =
              IF call.result = "resolved" /\ provider.currentUser = call.uid
              THEN "success" ELSE "failed"

\* C18, as stated: after a first password sign-in of a uid without profile and
\* the listener have both finished, one profile exists for the uid, with the
\* Employee role and a login history holding the single 'success' entry of
\* this sign-in, loginCount7Days = 1 and lastLoginIp = the caller's address.
C18_FirstSignInProfile ==
    ( /\ call.kind = "signIn" /\ call.pc = "done"
      /\ loads = <<>>
      /\ provider.currentUser = call.uid
      /\ ~call.hadProfile ) =>
        /\ users[call.uid].exists
        /\ EmployeeClass(users[call.uid].role)
        /\ Len(users[call.uid].loginHistory) = 1
        /\ users[call.uid].loginHistory[1].status = "success"
        /\ users[call.uid].loginHistory[1].ipAddress = call.clientIp
        /\ users[call.uid].loginCount7Days = 1
        /\ users[call.uid].lastLoginIp = call.clientIp

\* this step ends a signIn that could not resolve the caller's address, read
\* the profile, and met no Firestore failure
UnresolvedIpSignInEnds ==
    /\ call.kind = "signIn" /\ call.pc # "done"
    /\ call'.kind = "signIn" /\ call'.pc = "done"
    /\ call'.ipFailed /\ ~call'.failed
    /\ call'.userData.exists

\* the step leaves the sign-in accepted and logged with the placeholder
EndsAcceptedWithPlaceholder ==
    /\ call'.result = "resolved" /\ ~call'.denied
    /\ provider'.currentUser = call'.uid
    /\ \E i \in DOMAIN users'[call'.uid].loginHistory :
          /\ users'[call'.uid].loginHistory[i].status = "success"
          /\ users'[call'.uid].loginHistory[i].ipAddress = "unknown"
          /\ users'[call'.uid].loginHistory[i].timestamp = call'.ts
    /\ users'[call'.uid].lastLoginIp = "unknown"

C20_FirestoreFailuresAbsorbed ==
    ( /\ call.kind = "signIn" /\ call.pc = "done"
      /\ call.failed /\ ~call.denied ) =>
        /\ call.result = "resolved"
        /\ provider.currentUser = call.uid

\* C20 witness: the profile read failed; signIn resolved, the session is
\* established and no history entry was written.
C20_Witness ==
    /\ call.kind = "signIn" /\ call.pc = "done"
    /\ call.failed /\ ~call.denied
    /\ ~call.userData.exists /\ call.hadProfile
    /\ call.result = "resolved"
    /\ provider.currentUser = call.uid
    /\ users[call.uid].loginHistory = <<>>

(***************************************************************************)
(* Properties of the mailer of the Cloud Functions.                        *)
(***************************************************************************)

\* the attempts of the current sendEmailWithRetry call that failed
FailedSends == {i \in DOMAIN fn.outcomes : fn.outcomes[i] # "ok"}

\* C16: sendEmailWithRetry always terminates; it calls sendMail at most 3
\* times, stops at the first success, waits 2 seconds only between a failed
\* attempt and the next one (never after the last), and fails, with the error
\* of the last attempt, if and only if all 3 attempts failed.
C16_BoundedRetry ==
    /\ []( /\ fn.sends <= 3
           /\ fn.sends = Len(fn.outcomes)
           /\ \A i \in DOMAIN fn.outcomes :
                 i < Len(fn.outcomes) => fn.outcomes[i] # "ok"
           /\ fn.retry = "returned" =>
                 fn.sends >= 1 /\ fn.outcomes[fn.sends] = "ok"
           /\ fn.retry = "thrown" <=>
                 (fn.sends = 3 /\ Cardinality(FailedSends) = 3)
           /\ fn.retry = "thrown" => fn.thrown = fn.outcomes[3]
           /\ fn.pc = "wait" =>
                 fn.sends < 3 /\ fn.outcomes[fn.sends] # "ok"
           /\ fn.retry \in {"returned", "thrown"} =>
                 fn.slept = 2000 * (fn.sends - 1) )
    /\ (fn.retry = "running" ~> fn.retry \in {"returned", "thrown"})

\* C16 witness: the third attempt failed after two waits and the error of the
\* third attempt was thrown.
C16_Witness ==
    /\ fn.retry = "thrown"
    /\ fn.sends = 3 /\ fn.slept = 4000
    /\ fn.outcomes[2] # fn.outcomes[3]
    /\ fn.thrown = fn.outcomes[3]

(***************************************************************************)
(* Properties of concurrent sign-ins.                                      *)
(***************************************************************************)

\* seq1 is an initial part of seq2
IsPrefix(seq1, seq2) ==
    /\ Len(seq1) <= Len(seq2)
    /\ \A i \in DOMAIN seq1 : seq1[i] = seq2[i]

\* C21: when successful sign-ins of the same user run concurrently, in every
\* interleaving the 'success' entry of each of them is in loginHistory
\* afterwards and no earlier entry is removed or moved; loginCount7Days is
\* last-write-wins: it is the count the last writer computed from the profile
\* it had read.
C21_HistoryNotLost ==
    [][ /\ \A u \in Uids :
              IsPrefix(users[u].loginHistory, users'[u].loginHistory)
        /\ \A b \in Callers :
              (hc'[b].pc = "done" /\ hc'[b].result = "accepted") =>
                  [timestamp |-> hc'[b].ts, ipAddress |-> hc'[b].ip,
                   status |-> "success", reason |-> NoReason]
                      \in Range(users'[hc'[b].uid].loginHistory)
        /\ \A b \in Callers :
              (hc[b].pc = "history" /\ hc'[b].pc = "done") =>
                  users'[hc[b].uid].loginCount7Days =
                      Cardinality({i \in DOMAIN hc[b].userData.loginHistory :
                          hc[b].userData.loginHistory[i].timestamp
                              > hc[b].ts - SEVEN_DAYS}) + 1
      ]_vars

\* C21 witness: two sign-ins that read the same profile, without history,
\* have both been accepted; both entries are in loginHistory and the count
\* is that of the last writer, 1.
C21_Witness ==
    /\ \A b \in Callers : hc[b].pc = "done" /\ hc[b].result = "accepted"
    /\ hc["r1"].userData = hc["r2"].userData
    /\ hc["r1"].userData.loginHistory = <<>>
    /\ hc["r1"].ts # hc["r2"].ts
    /\ Len(users["u1"].loginHistory) = 2
    /\ users["u1"].loginCount7Days = 1

(***************************************************************************)
(* Properties of generateOTP.                                              *)
(***************************************************************************)

\* the string has exactly 6 characters, each an ASCII digit
SixDigits(str) ==
    /\ Len(str) = 6
    /\ \A i \in DOMAIN str : str[i] \in 0..9

\* C22, as stated: generateOTP returns a string of exactly 6 digits on every
\* call, independent of stored state, and the strings with a leading zero
\* (000000 to 099999) are possible results like every other 6-digit string.
C22_AnySixDigitString ==
    gen.drawn =>
        /\ SixDigits(gen.otp)
        /\ gen.otp = GenerateOTP(gen.random)
        /\ \E k \in RandomDraws : Head(GenerateOTP(k)) = 0

\* C22, amended: generateOTP returns a string of exactly 6 digits on every
\* call, independent of stored state; it is the numeral of a number from
\* 100000 to 999999, so its first digit is never 0.
C22_SixDigitsNoLeadingZero ==
    gen.drawn =>
        /\ SixDigits(gen.otp)
        /\ Head(gen.otp) \in 1..9
        /\ gen.otp = GenerateOTP(gen.random)

\* C22 witness: beside a store that holds codes, the largest draw gave a
\* string that starts with 9.
C22_Witness ==
    /\ gen.drawn
    /\ gen.stored > 0
    /\ gen.random = RandomGrain - 1
    /\ Head(gen.otp) = 9
    /\ Len(gen.otp) = 6

(***************************************************************************)
(* Properties of the company management service.                           *)
(***************************************************************************)

\* the number a string of decimal digits denotes
DigitValue(c) ==
    CASE c = "0" -> 0 [] c = "1" -> 1 [] c = "2" -> 2 [] c = "3" -> 3
      [] c = "4" -> 4 [] c = "5" -> 5 [] c = "6" -> 6 [] c = "7" -> 7
      [] c = "8" -> 8 [] c = "9" -> 9

RECURSIVE DecimalValue(_)
DecimalValue(tok) ==
    IF tok = <<>> THEN 0
    ELSE 10 * DecimalValue(SubSeq(tok, 1, Len(tok) - 1))
            + DigitValue(tok[Len(tok)])

\* the string is an address in dotted-decimal form (four numbers of one to
\* three digits, each at most 255) or eight groups of one to four
\* hexadecimal digits separated by colons
SyntacticallyValidIp(text) ==
    \/ LET toks == SplitAt(Chars(text), ".")
       IN  /\ Len(toks) = 4
           /\ \A i \in DOMAIN toks :
                 /\ Len(toks[i]) \in 1..3
                 /\ \A j \in DOMAIN toks[i] : toks[i][j] \in DigitChars
                 /\ DecimalValue(toks[i]) <= 255
    \/ LET toks == SplitAt(Chars(text), ":")
       IN  /\ Len(toks) = 8
           /\ \A i \in DOMAIN toks :
                 /\ Len(toks[i]) \in 1..4
                 /\ \A j \in DOMAIN toks[i] : toks[i][j] \in HexChars

\* the strings offered that are syntactically valid addresses
ValidIpTexts == {text \in IpTexts : SyntacticallyValidIp(text)}

\* the list has more than 3 entries or holds an invalid address
OverLongOrInvalid(ips) ==
    /\ ips.given
    /\ \/ Len(ips.list) > 3
       \/ \E j \in DOMAIN ips.list : ips.list[j] \notin ValidIpTexts

\* C23: after any sequence of createCompany and updateCompany calls, every
\* stored company has an allowedIps list of 0 to 3 entries, each a
\* syntactically valid IP address; a call whose list has more than 3 entries
\* or holds an invalid address fails and leaves the stored companies
\* unchanged.
C23_AllowListBound ==
    /\ [](\A i \in DOMAIN companies :
            /\ companies[i].hasIps
            /\ Len(companies[i].allowedIps) <= 3
            /\ \A j \in DOMAIN companies[i].allowedIps :
                  companies[i].allowedIps[j] \in ValidIpTexts)
    /\ [][(cc'.op # "none" /\ OverLongOrInvalid(cc'.ips)) =>
              (cc'.result = "failed" /\ companies' = companies)]_vars

\* C23 witness: a company holds three addresses and an update of it with
\* four valid ones has failed.
C23_Witness ==
    /\ cc.op = "update" /\ cc.id \in DOMAIN companies
    /\ Len(companies[cc.id].allowedIps) = 3
    /\ cc.ips.given /\ Len(cc.ips.list) = 4
    /\ \A j \in DOMAIN cc.ips.list : cc.ips.list[j] \in ValidIpTexts
    /\ cc.result = "failed"

(***************************************************************************)
(* Properties of the session after a sign-in has settled.                  *)
(***************************************************************************)

\* a signIn rejected by the IP policy has finished, and so have the
\* callbacks of the auth-state listener it triggered
IpRejectionSettled ==
    /\ call.kind = "signIn" /\ call.pc = "done"
    /\ call.denied
    /\ loads = <<>>

\* C24, as stated: once an IP-rejected signIn and all the listener callbacks
\* it triggered have completed, in every interleaving the provider session is
\* signed out and the in-memory session user is null.
C24_NoHalfAuthenticated ==
    IpRejectionSettled =>
        /\ provider.currentUser = "none"
        /\ ~authState.user.exists

\* C25, as stated: after an IP-policy rejection of signIn has settled,
\* authState.error holds the access-denied message naming the offending
\* address and the allowed addresses.
C25_AccessDeniedSurfaced ==
    IpRejectionSettled =>
        /\ authState.error.kind = "AccesRefuse"
        /\ authState.error.ip = call.ipAddress
        /\ authState.error.allowedIps = AllowListOf(call.userData.company)

\* a verifyMagicLink call that found the profile has resolved and the
\* listener has finished
MagicLinkSettled ==
    /\ call.kind = "vml" /\ call.pc = "done"
    /\ call.result = "resolved"
    /\ loads = <<>>

\* C26, as stated: after a successful verifyMagicLink the in-memory session
\* profile is the profile after the update: its loginHistory holds the entry
\* appended for this sign-in, and its loginCount7Days, lastLogin and
\* lastLoginIp are the values persisted by the login-history update.
C26_SessionIsUpdatedProfile ==
    (MagicLinkSettled /\ authState.user.exists) =>
        /\ [timestamp |-> call.ts, ipAddress |-> call.ipAddress,
            status |-> "success", reason |-> NoReason]
              \in Range(authState.user.loginHistory)
        /\ authState.user.loginCount7Days = users[call.uid].loginCount7Days
        /\ authState.user.lastLogin = users[call.uid].lastLogin
        /\ authState.user.lastLoginIp = users[call.uid].lastLoginIp

\* the attempt has ended as Authenticated (user set, no error) or as
\* Rejected (user null)
AttemptEnded ==
    /\ ~authState.isLoading
    /\ \/ authState.user.exists /\ authState.error = NoError
       \/ ~authState.user.exists

\* C27, as stated: every signIn or verifyMagicLink call that sets isLoading
\* is eventually followed, when every provider and database call returns, by
\* a state with isLoading = false that is Authenticated or Rejected.
C27_AttemptEnds ==
    authState.isLoading ~> AttemptEnded

(***************************************************************************)
(* Properties of a wrong guess.                                            *)
(***************************************************************************)

\* this step is a request to verify-otp whose (email, otp) matches no
\* stored document
WrongGuessStep ==
    /\ resp'.route = "verify-otp" /\ resp'.accessed
    /\ vlast'.pc = "done"
    /\ MatchingDocs(otps, resp'.email, resp'.otp) = {}

\* this step is a request to verify-otp with the code of a stored document,
\* no document of that (email, otp) being expired, made right after a
\* wrong guess was answered
RightGuessAfterWrongStep ==
    /\ resp.route = "verify-otp" /\ resp.verdict = "NotFound"
    /\ resp'.route = "verify-otp" /\ resp'.accessed
    /\ vlast'.pc = "done"
    /\ MatchingDocs(otps, resp'.email, resp'.otp) # {}
    /\ \A d \in MatchingDocs(otps, resp'.email, resp'.otp) :
          srvNow <= d.expiryTime

\* C28: a request to verify-otp whose (email, otp) matches no stored record
\* is answered NotFound / 400 without cookie and leaves the OTP store
\* unchanged, so a following request with the correct, unexpired code is
\* still answered Valid / 200 with the session cookie.
C28_WrongGuessKeepsCode ==
    [][ /\ WrongGuessStep =>
              /\ resp'.verdict = "NotFound" /\ ~vlast'.result
              /\ resp'.status = 400 /\ ~resp'.cookie.set
              /\ otps' = otps
        /\ RightGuessAfterWrongStep =>
              /\ resp'.verdict = "Valid" /\ vlast'.result
              /\ resp'.status = 200 /\ resp'.cookie.set
      ]_vars

\* C28 witness: a wrong guess for an email that has an unexpired code was
\* answered 400 without cookie, and the document of that code is in the
\* store.
C28_Witness ==
    /\ resp.route = "verify-otp" /\ resp.accessed
    /\ resp.verdict = "NotFound"
    /\ resp.status = 400 /\ ~resp.cookie.set
    /\ vlast.pc = "done" /\ vlast.signal = "NotFound"
    /\ \E d \in otps :
          /\ d.email = resp.email /\ d.otp # resp.otp
          /\ srvNow <= d.expiryTime

(***************************************************************************)
(* Properties of the pending magic-link email.                             *)
(***************************************************************************)

\* C29: the pending magic-link email is one last-writer-wins slot: a
\* successful sendMagicLink(e) leaves e in it, whatever it held; a
\* verifyMagicLink passes the content of the slot to the provider, and calls
\* the provider with no email when the slot is empty; the slot is removed
\* after the provider sign-in succeeded, only then, and is left in place
\* when that sign-in fails.
C29_PendingEmailSlot ==
    [][ /\ (ml.pc = "send" /\ ml'.pc = "done" /\ ml'.result = "resolved") =>
              storage' = ml.email
        /\ (call.pc \in {"idle", "done"} /\ call'.kind = "vml"
              /\ call'.pc # "done") =>
              call'.pc = "provider" /\ call'.email = storage
        /\ (call.kind = "vml" /\ call.pc = "provider"
              /\ call'.pc # "provider") =>
              IF provider'.currentUser = call.uid /\ call'.pc = "getIp"
              THEN storage' = ""
              ELSE storage' = storage /\ call'.result = "rejected"
        /\ (storage # "" /\ storage' = "") =>
              /\ call.kind = "vml" /\ call.pc = "provider"
              /\ call'.pc = "getIp"
              /\ provider'.currentUser = call.uid
      ]_vars

\* C29 witness: sendMagicLink has succeeded for one address and then for
\* another; verifyMagicLink has passed the second one to the provider, whose
\* sign-in failed; the slot still holds the second one.
C29_Witness ==
    /\ ml.pc = "done" /\ ml.result = "resolved" /\ ml.calls = 2
    /\ ml.before \in links /\ ml.before # ml.email
    /\ call.kind = "vml" /\ call.pc = "done" /\ call.result = "rejected"
    /\ call.uid \in Uids
    /\ call.email = ml.email
    /\ storage = ml.email
    /\ provider.currentUser = "none"

(***************************************************************************)
(* Properties of the callable verifyOtp.                                   *)
(***************************************************************************)

\* a call of verifyOtp for the email e returns in this step
FnVerifyStep(e) == fv'.seq # fv.seq /\ fv'.email = e

\* otps/{e} holds a record that is not expired and has attempts < 3
FnRecordUsable(e) ==
    /\ fnOtps[e].exists
    /\ ~(fnOtps[e].expiresAt < srvNow)
    /\ fnOtps[e].attempts < 3

\* C30: under sequential calls of the callable verifyOtp, at most 3 guesses
\* are ever compared with one issued code: a guess is compared only with an
\* unexpired record whose attempts are below 3; a wrong guess increments
\* attempts by exactly 1 and keeps the record; a call that finds
\* attempts >= 3 deletes the record and fails, also with the correct guess;
\* an expired record is deleted without a comparison; a custom token is
\* returned only for a correct guess on an unexpired record with
\* attempts < 3, and that call deletes the record.
C30_AtMostThreeGuesses ==
    /\ [](\A e \in Emails : fnCompared[e] <= 3)
    /\ [][\A e \in Emails : FnVerifyStep(e) =>
            /\ fv'.compared => FnRecordUsable(e)
            /\ (fv'.compared /\ fnOtps[e].code # fv'.otp) =>
                  /\ fnOtps'[e] =
                        [fnOtps[e] EXCEPT !.attempts = fnOtps[e].attempts + 1]
                  /\ fnCompared'[e] = fnCompared[e] + 1
                  /\ ~fv'.token
            /\ (fv'.read /\ fnOtps[e].exists
                  /\ fnOtps[e].expiresAt < srvNow) =>
                  /\ ~fnOtps'[e].exists
                  /\ ~fv'.compared /\ ~fv'.token
                  /\ fv'.result = "internal"
            /\ (fv'.read /\ fnOtps[e].exists
                  /\ ~(fnOtps[e].expiresAt < srvNow)
                  /\ fnOtps[e].attempts >= 3) =>
                  /\ ~fnOtps'[e].exists
                  /\ ~fv'.compared /\ ~fv'.token
                  /\ fv'.result = "internal"
            /\ fv'.token =>
                  /\ FnRecordUsable(e)
                  /\ fnOtps[e].code = fv'.otp
                  /\ ~fnOtps'[e].exists
            /\ ~fv'.compared => fnCompared'[e] = fnCompared[e]
       ]_vars

\* C30 witness: sendOtpEmail has issued a code and returned; three wrong
\* guesses were compared with it; the fourth call, made with the issued code
\* before the expiry, has failed and the record is gone.
C30_Witness ==
    /\ fn.pc = "done" /\ fn.result = "success"
    /\ fv.pc = "done" /\ fv.email = fn.email /\ fv.otp = fn.otp
    /\ fv.thrown = "Too many attempts" /\ fv.result = "internal"
    /\ ~fv.token /\ ~fv.compared
    /\ fnCompared[fv.email] = 3
    /\ ~fnOtps[fv.email].exists
    /\ srvNow < OTP_EXPIRY_MINUTES

====
